---- MODULE Spec2Model ----
(***************************************************************************)
(* Verification model of the FLIP-PATASHALA python services:               *)
(*   - quiz_evaluator.py   : calculate_score, analyze_misconceptions       *)
(*   - quiz_generator.py   : adapt_difficulty, generate_questions          *)
(*   - ai_service/app.py   : cluster_departments, get_insights             *)
(*   - ai_tip_service/tip_generator.py : rule-based tips, the LLM path     *)
(*   - forum_nlp_service.py : extract_tags                                 *)
(*   - process_csv.py      : validate_student_data, process_csv_content    *)
(*   - sync_content_access.py : sync_content_access                        *)
(* Python text is modelled as a sequence of one-character strings so that  *)
(* strip(), lower() and the substring test are computed, not assumed.      *)
(***************************************************************************)
EXTENDS Integers, Sequences, FiniteSets, TLC

VARIABLES
    \* quiz_evaluator.py
    student_answers,    \* list of answers handed to the evaluator
    quiz_questions,     \* list of question dicts handed to the evaluator
    score,              \* value returned by calculate_score
    misconceptions,     \* outcome of analyze_misconceptions
    qpc,                \* "input" | "scored" | "analyzed"
    \* the short-answer rule applied both ways round
    text_a, text_b,     \* two texts
    credit_ab,          \* calculate_score credits student text_a against text_b
    credit_ba,          \* calculate_score credits student text_b against text_a
    missed_ab,          \* analyze_misconceptions reports text_a against text_b
    missed_ba,          \* analyze_misconceptions reports text_b against text_a
    mpc,                \* "input" | "scored" | "analyzed"
    \* quiz_generator.adapt_difficulty
    prev_score,         \* score argument, in hundredths (0.85 is 85)
    current_difficulty, \* current_difficulty argument, a text
    next_difficulty,    \* returned level
    dpc,                \* "input" | "done"
    \* ai_service/app.py cluster_departments
    dept_data,          \* rows of get_department_data, ordered by name
    n_clusters,         \* n_clusters handed to KMeans
    labels,             \* kmeans.fit_predict(features), one label per row
    cluster_results,    \* outcome of cluster_departments
    cpc,                \* "input" | "done"
    \* ai_tip_service/tip_generator.py
    user_type,          \* role the tips are asked for
    tip_data,           \* analysis dict handed to the tip generator
    client_ready,       \* anthropic_client is set
    db_ok,              \* the admin statistics queries succeed
    llm_reply,          \* what messages.create does: raises, or a text
    rule_tips,          \* value of _generate_rule_based_tips
    claude_tips,        \* value of _generate_tip_with_claude
    user_tips,          \* value of generate_tips_for_user
    tpc,                \* set of the tip functions already applied
    \* one request that may call the LLM
    request,            \* "tips" | "questions" | "feedback" | "suggestions"
    llm_client,         \* anthropic_client of the tip service is set
    n_misconceptions,   \* len(misconceptions) of the request
    call_result,        \* what messages.create does when it is called
    llm_calls,          \* calls of messages.create made by the request
    llm_answer,         \* "none" | "llm" | "preset" | "fallback"
    lpc,                \* "start" | "called" | "failed" | "returned"
    \* forum_nlp_service.extract_tags
    doc_tokens,         \* tokens of nlp(cleaned_text), each with its pos_
    doc_ents,           \* doc.ents, each with its label_
    max_tags,           \* max_tags argument
    unique_tags,        \* list returned by extract_tags
    gpc,                \* "input" | "done"
    \* process_csv.validate_student_data
    df_columns,         \* df.columns, stripped and lower-cased
    df_rows,            \* rows of df, in order
    validation,         \* dict returned by validate_student_data
    csv_payload,        \* dict returned by process_csv_content / _file
    vpc,                \* "input" | "done" | "content" | "file"
    \* sync_content_access.sync_content_access
    student_data,       \* list of student records handed to the sync
    sync_result,        \* dict returned by sync_content_access
    spc,                \* "input" | "done"
    \* quiz_generator.generate_questions
    gen_content,        \* what the content argument is like
    gen_difficulty,     \* difficulty argument of generate_questions
    num_questions,      \* num_questions argument
    gen_reply,          \* what the LLM call and the JSON parse come to
    questions_out,      \* outcome of generate_questions
    fallback_out,       \* list returned by generate_fallback_questions
    npc,                \* set of the generator functions already applied
    \* ai_service/app.py get_insights
    obtained,           \* 'conn' in locals(): get_db_connection returned
    conn_state,         \* "none" | "open" | "closed"
    closes,             \* number of conn.close() calls
    dept_rows,          \* len(dept_data)
    inactive_rows,      \* len(inactive_data)
    stats_rows,         \* len(verification_stats)
    recommendations,    \* what generate_ai_recommendations returned
    insights_response,  \* payload of the response: "none" until there is one
    ipc                 \* position in get_insights

quizVars  == <<student_answers, quiz_questions, score, misconceptions, qpc>>
matchVars == <<text_a, text_b, credit_ab, credit_ba, missed_ab, missed_ba, mpc>>

diffVars  == <<prev_score, current_difficulty, next_difficulty, dpc>>
clusterVars == <<dept_data, n_clusters, labels, cluster_results, cpc>>

tipVars == <<user_type, tip_data, client_ready, db_ok, llm_reply,
             rule_tips, claude_tips, user_tips, tpc>>

llmVars == <<request, llm_client, n_misconceptions, call_result, llm_calls,
             llm_answer, lpc>>

tagVars == <<doc_tokens, doc_ents, max_tags, unique_tags, gpc>>

csvVars == <<df_columns, df_rows, validation, csv_payload, vpc>>

syncVars == <<student_data, sync_result, spc>>

genVars == <<gen_content, gen_difficulty, num_questions, gen_reply,
             questions_out, fallback_out, npc>>

connVars == <<obtained, conn_state, closes, dept_rows, inactive_rows,
              stats_rows, recommendations, insights_response, ipc>>

vars == <<quizVars, matchVars, diffVars, clusterVars, tipVars, llmVars, tagVars,
          csvVars, syncVars, genVars, connVars>>

(***************************************************************************)
(* Bounds of the model                                                     *)
(***************************************************************************)
MaxAnswers   == 2
MaxQuestions == 2
MaxStrLen    == 3

(***************************************************************************)
(* Python str: sequences of characters, str.lower(), str.strip(), `in`     *)
(***************************************************************************)
UpperLetters == <<"A","B","C","D","E","F","G","H","I","J","K","L","M",
                  "N","O","P","Q","R","S","T","U","V","W","X","Y","Z">>
LowerLetters == <<"a","b","c","d","e","f","g","h","i","j","k","l","m",
                  "n","o","p","q","r","s","t","u","v","w","x","y","z">>

Whitespace == {" "}

LowerChar(c) ==
    IF \E k \in 1..Len(UpperLetters) : UpperLetters[k] = c
    THEN LowerLetters[CHOOSE k \in 1..Len(UpperLetters) : UpperLetters[k] = c]
    ELSE c

\* str.lower()
Lower(s) == [k \in 1..Len(s) |-> LowerChar(s[k])]

\* str.strip(): drop leading and trailing whitespace
RECURSIVE LStrip(_)
LStrip(s) ==
    IF s # <<>> /\ Head(s) \in Whitespace THEN LStrip(Tail(s)) ELSE s

RECURSIVE RStrip(_)
RStrip(s) ==
    IF s # <<>> /\ s[Len(s)] \in Whitespace
    THEN RStrip(SubSeq(s, 1, Len(s) - 1))
    ELSE s

Strip(s) == RStrip(LStrip(s))

\* Python `sub in s` on str
Contains(s, sub) ==
    \E k \in 0..(Len(s) - Len(sub)) : SubSeq(s, k + 1, k + Len(sub)) = sub

SeqsUpTo(S, n) == UNION {[1..k -> S] : k \in 0..n}

(***************************************************************************)
(* Values handed to the evaluator                                          *)
(***************************************************************************)
\* An answer is a JSON value: an int, a str or null.
IntAns(k) == [kind |-> "int",  int |-> k, str |-> <<>>]
StrAns(s) == [kind |-> "str",  int |-> 0, str |-> s]
NoneAns   == [kind |-> "none", int |-> 0, str |-> <<>>]

IsInt(a) == a.kind = "int"     \* isinstance(answer, int)
IsStr(a) == a.kind = "str"     \* isinstance(answer, str)

\* A question is a dict; `has` is the set of keys it holds, the other fields
\* are the values of the keys it holds (a fixed filler for the ones it lacks).
QuestionKeys == {"type", "options", "correctIndex", "correctAnswer",
                 "question", "explanation"}

OptionsFor(t) ==
    IF t = "true_false" THEN <<"True", "False">>
    ELSE IF t = "short_answer" THEN <<>>
    ELSE <<"Berlin", "Paris">>

MkQuestion(has, t, ci, ca) ==
    [has           |-> has,
     type          |-> IF "type" \in has THEN t ELSE "",
     options       |-> IF "options" \in has THEN OptionsFor(t) ELSE <<>>,
     correctIndex  |-> IF "correctIndex" \in has THEN ci ELSE 0,
     correctAnswer |-> IF "correctAnswer" \in has THEN ca ELSE <<>>,
     question      |-> IF "question" \in has THEN "Q?" ELSE "",
     explanation   |-> IF "explanation" \in has THEN "because" ELSE ""]

AnswerInts   == {-1, 0, 1, 2}
AnswerTexts  == {<<"A">>, <<"b", "b">>, <<" ">>}
CorrectTexts == {<<"a", "b">>, <<"b">>}
TypeValues   == {"mcq", "true_false", "short_answer", "essay"}
IndexValues  == {0, 1, 2}

AnswerValues ==
    {IntAns(k) : k \in AnswerInts} \cup {StrAns(s) : s \in AnswerTexts}
        \cup {NoneAns}

\* every question dict over the value sets, with every subset of the keys
AllQuestions ==
    {MkQuestion(has, t, ci, ca) :
        has \in SUBSET QuestionKeys, t \in TypeValues,
        ci \in IndexValues, ca \in CorrectTexts}

AllKeys == QuestionKeys
NoType  == QuestionKeys \ {"type"}

\* the questions used in lists of more than one question: the three kinds of
\* quiz_evaluator.main, the untyped question of test_quiz_evaluator.py, and
\* questions with a key missing or an unknown type
ListQuestions ==
    {MkQuestion(AllKeys \ {"correctAnswer"}, "mcq", 1, <<>>),
     MkQuestion(NoType \ {"correctAnswer"}, "mcq", 0, <<>>),
     MkQuestion(AllKeys \ {"correctAnswer"}, "true_false", 0, <<>>),
     MkQuestion(AllKeys \ {"correctIndex"}, "short_answer", 0, <<"a", "b">>),
     MkQuestion(AllKeys \ {"correctAnswer", "question"}, "mcq", 1, <<>>),
     MkQuestion(AllKeys \ {"correctAnswer", "correctIndex"}, "mcq", 0, <<>>),
     MkQuestion(AllKeys \ {"correctAnswer", "correctIndex"}, "short_answer", 0, <<>>),
     MkQuestion(AllKeys \ {"correctAnswer"}, "essay", 0, <<>>)}

QuestionLists ==
    SeqsUpTo(ListQuestions, MaxQuestions) \cup {<<q>> : q \in AllQuestions}

AnswerLists == SeqsUpTo(AnswerValues, MaxAnswers)

(***************************************************************************)
(* quiz_evaluator.calculate_score                                          *)
(***************************************************************************)
\* question.get("type", "mcq")
QuestionType(question) ==
    IF "type" \in question.has THEN question.type ELSE "mcq"

\* variant: the student's text must contain the correct one
score_is_match_one_way(student_ans, correct_ans) ==
    \/ student_ans = correct_ans
    \/ Contains(student_ans, correct_ans)

\* line 63, on the stripped and lower-cased texts
score_is_match(student_ans, correct_ans) ==
    \/ student_ans = correct_ans
    \/ Contains(student_ans, correct_ans)
    \/ Contains(correct_ans, student_ans)

\* variant: index questions compared without the isinstance(answer, int) test
ScoreCreditsAnyAnswer(answer, question) ==
    LET question_type == QuestionType(question) IN
    IF question_type = "mcq" \/ question_type = "true_false"
    THEN /\ "correctIndex" \in question.has
         /\ answer.int = question.correctIndex
    ELSE IF question_type = "short_answer"
    THEN /\ "correctAnswer" \in question.has
         /\ IsStr(answer)
         /\ score_is_match(Lower(Strip(answer.str)),
                           Lower(Strip(question.correctAnswer)))
    ELSE FALSE

\* the body of the loop: TRUE when correct_count is incremented
ScoreCredits(answer, question) ==
    LET question_type == QuestionType(question) IN
    IF question_type = "mcq" \/ question_type = "true_false"
    THEN /\ IsInt(answer)
         /\ "correctIndex" \in question.has
         /\ answer.int = question.correctIndex
    ELSE IF question_type = "short_answer"
    THEN /\ "correctAnswer" \in question.has
         /\ IsStr(answer)
         /\ score_is_match(Lower(Strip(answer.str)),
                           Lower(Strip(question.correctAnswer)))
    ELSE FALSE

\* for i, answer in enumerate(student_answers): if i >= total_questions: break
\* (i is the 1-based position, i - 1 the python index)
RECURSIVE ScoreLoop(_, _, _, _)
ScoreLoop(answers, questions, i, correct_count) ==
    IF i > Len(answers) \/ i - 1 >= Len(questions)
    THEN correct_count
    ELSE ScoreLoop(answers, questions, i + 1,
                   IF ScoreCredits(answers[i], questions[i])
                   THEN correct_count + 1 ELSE correct_count)

\* a float result is kept as the exact fraction num / den
Fraction(n, d) == [num |-> n, den |-> d]

\* variant: divides by the number of answers
calculate_score_per_answer(answers, questions) ==
    IF answers = <<>> \/ questions = <<>>
    THEN Fraction(0, 1)
    ELSE Fraction(ScoreLoop(answers, questions, 1, 0), Len(answers))

calculate_score(answers, questions) ==
    IF answers = <<>> \/ questions = <<>>
    THEN Fraction(0, 1)
    ELSE Fraction(ScoreLoop(answers, questions, 1, 0), Len(questions))

(***************************************************************************)
(* quiz_evaluator.analyze_misconceptions                                   *)
(***************************************************************************)
\* line 127, on the stripped and lower-cased texts
analyze_is_match(student_ans, correct_ans) ==
    \/ student_ans = correct_ans
    \/ Contains(student_ans, correct_ans)
    \/ Contains(correct_ans, student_ans)

\* text shown in a misconception: an option / placeholder, or the raw text
Shown(text) == [text |-> text, raw |-> <<>>]
RawText(s)  == [text |-> "", raw |-> s]

Misconception(i, question_type, question, student, correct) ==
    [questionIndex |-> i,
     questionType  |-> question_type,
     question      |-> question.question,
     studentAnswer |-> student,
     correctAnswer |-> correct,
     explanation   |-> question.explanation]

\* variant: only the upper end of the range is tested, so that a negative
\* answer indexes the options from the end
student_answer_text_from_end(answer, question) ==
    IF answer.int < Len(question.options)
    THEN IF answer.int >= 0
         THEN question.options[answer.int + 1]
         ELSE IF Len(question.options) + answer.int >= 0
         THEN question.options[Len(question.options) + answer.int + 1]
         ELSE "No answer"
    ELSE "No answer"

\* lines 99-102
student_answer_text(answer, question) ==
    IF 0 <= answer.int /\ answer.int < Len(question.options)
    THEN question.options[answer.int + 1]
    ELSE "No answer"

\* lines 105-109
correct_answer_text(question) ==
    IF 0 <= question.correctIndex
           /\ question.correctIndex < Len(question.options)
    THEN question.options[question.correctIndex + 1]
    ELSE "Unknown"

\* One pass of the loop body for python index i: the entries appended to
\* misconceptions (none or one), or a KeyError from a question[...] lookup.
\* `0 <= answer < len(question["options"])` reads question["options"] only
\* when 0 <= answer holds (chained comparison), likewise for correctIndex.
AnalyzePair(i, answer, question) ==
    LET question_type == QuestionType(question)
        Ok(list)      == [raised |-> FALSE, list |-> list]
        KeyError      == [raised |-> TRUE,  list |-> <<>>]
        display_keys  == {"question", "explanation"} IN
    IF question_type = "mcq" \/ question_type = "true_false"
    THEN IF IsInt(answer) /\ "correctIndex" \in question.has
         THEN IF answer.int = question.correctIndex
              THEN Ok(<<>>)
              ELSE IF \/ answer.int >= 0 /\ "options" \notin question.has
                      \/ question.correctIndex >= 0 /\ "options" \notin question.has
                      \/ ~(display_keys \subseteq question.has)
                   THEN KeyError
                   ELSE Ok(<<Misconception(i, question_type, question,
                               Shown(student_answer_text(answer, question)),
                               Shown(correct_answer_text(question)))>>)
         ELSE Ok(<<>>)
    ELSE IF question_type = "short_answer"
    THEN IF "correctAnswer" \in question.has /\ IsStr(answer)
         THEN IF analyze_is_match(Lower(Strip(answer.str)),
                                  Lower(Strip(question.correctAnswer)))
              THEN Ok(<<>>)
              ELSE IF ~(display_keys \subseteq question.has)
                   THEN KeyError
                   ELSE Ok(<<Misconception(i, question_type, question,
                                           RawText(answer.str),
                                           RawText(question.correctAnswer))>>)
         ELSE Ok(<<>>)
    ELSE Ok(<<>>)

\* for i, answer in enumerate(student_answers): if i >= len(quiz_questions): break
RECURSIVE AnalyzeLoop(_, _, _, _)
AnalyzeLoop(answers, questions, i, found) ==
    IF i > Len(answers) \/ i - 1 >= Len(questions)
    THEN [raised |-> FALSE, list |-> found]
    ELSE LET step == AnalyzePair(i - 1, answers[i], questions[i]) IN
         IF step.raised
         THEN [raised |-> TRUE, list |-> <<>>]
         ELSE AnalyzeLoop(answers, questions, i + 1, found \o step.list)

analyze_misconceptions(answers, questions) ==
    AnalyzeLoop(answers, questions, 1, <<>>)

(***************************************************************************)
(* The evaluator run as in quiz_evaluator.main: score, then misconceptions *)
(***************************************************************************)
NoScore  == Fraction(0, 0)
NoResult == [raised |-> FALSE, list |-> <<>>]

CalculateScore ==
    /\ qpc = "input"
    /\ score' = calculate_score(student_answers, quiz_questions)
    /\ qpc' = "scored"
    /\ UNCHANGED <<student_answers, quiz_questions, misconceptions>>
    /\ UNCHANGED <<matchVars, diffVars, clusterVars, tipVars, llmVars,
                   tagVars, csvVars, syncVars, genVars, connVars>>

AnalyzeMisconceptions ==
    /\ qpc = "scored"
    /\ misconceptions' = analyze_misconceptions(student_answers, quiz_questions)
    /\ qpc' = "analyzed"
    /\ UNCHANGED <<student_answers, quiz_questions, score>>
    /\ UNCHANGED <<matchVars, diffVars, clusterVars, tipVars, llmVars,
                   tagVars, csvVars, syncVars, genVars, connVars>>

(***************************************************************************)
(* The short-answer rule applied to two texts, both ways round             *)
(***************************************************************************)
TextChars == {"a", "A", "b", " "}
Texts     == SeqsUpTo(TextChars, MaxStrLen)

ShortAnswerQuestion(correct) ==
    MkQuestion(QuestionKeys \ {"correctIndex"}, "short_answer", 0, correct)

Credited(student, correct) ==
    calculate_score(<<StrAns(student)>>, <<ShortAnswerQuestion(correct)>>)
        = Fraction(1, 1)

Missed(student, correct) ==
    analyze_misconceptions(<<StrAns(student)>>,
                           <<ShortAnswerQuestion(correct)>>).list # <<>>

ScoreBothWays ==
    /\ mpc = "input"
    /\ credit_ab' = Credited(text_a, text_b)
    /\ credit_ba' = Credited(text_b, text_a)
    /\ mpc' = "scored"
    /\ UNCHANGED <<text_a, text_b, missed_ab, missed_ba>>
    /\ UNCHANGED <<quizVars, diffVars, clusterVars, tipVars, llmVars, tagVars,
                   csvVars, syncVars, genVars, connVars>>

AnalyzeBothWays ==
    /\ mpc = "scored"
    /\ missed_ab' = Missed(text_a, text_b)
    /\ missed_ba' = Missed(text_b, text_a)
    /\ mpc' = "analyzed"
    /\ UNCHANGED <<text_a, text_b, credit_ab, credit_ba>>
    /\ UNCHANGED <<quizVars, diffVars, clusterVars, tipVars, llmVars, tagVars,
                   csvVars, syncVars, genVars, connVars>>


(***************************************************************************)
(* quiz_generator.adapt_difficulty                                         *)
(***************************************************************************)
\* difficulties = ["Easy", "Medium", "Hard"]
difficulties == << <<"E","a","s","y">>,
                   <<"M","e","d","i","u","m">>,
                   <<"H","a","r","d">> >>

\* score >= 0.85 and score <= 0.40, in hundredths
ExcellentScore == 85
PoorScore      == 40

Min(a, b) == IF a < b THEN a ELSE b
Max(a, b) == IF a > b THEN a ELSE b

\* variant: no case-insensitive pass, anything off the scale is "Medium"
NormalizeDifficultyExact(current) ==
    IF \E k \in 1..Len(difficulties) : difficulties[k] = current
    THEN current
    ELSE difficulties[2]

\* lines 465-473: exact entry, else the first entry equal ignoring case,
\* else (the for loop ends without break) "Medium"
NormalizeDifficulty(current) ==
    IF \E k \in 1..Len(difficulties) : difficulties[k] = current
    THEN current
    ELSE IF \E k \in 1..Len(difficulties) :
                Lower(difficulties[k]) = Lower(current)
    THEN LET k == CHOOSE j \in 1..Len(difficulties) :
                    /\ Lower(difficulties[j]) = Lower(current)
                    /\ \A h \in 1..(j - 1) :
                           Lower(difficulties[h]) # Lower(current)
         IN difficulties[k]
    ELSE difficulties[2]

\* difficulties.index(x), 0-based
DifficultyIndex(x) ==
    (CHOOSE k \in 1..Len(difficulties) :
        /\ difficulties[k] = x
        /\ \A h \in 1..(k - 1) : difficulties[h] # x) - 1

\* variant: strict comparisons at the thresholds
adapt_difficulty_strict(s, current) ==
    LET current_idx == DifficultyIndex(NormalizeDifficulty(current))
        next_idx ==
            IF s > ExcellentScore THEN Min(current_idx + 1, 2)
            ELSE IF s < PoorScore THEN Max(current_idx - 1, 0)
            ELSE current_idx
    IN difficulties[next_idx + 1]

adapt_difficulty(s, current) ==
    LET current_idx == DifficultyIndex(NormalizeDifficulty(current))
        next_idx ==
            IF s >= ExcellentScore THEN Min(current_idx + 1, 2)
            ELSE IF s <= PoorScore THEN Max(current_idx - 1, 0)
            ELSE current_idx
    IN difficulties[next_idx + 1]

UpperChar(c) ==
    IF \E k \in 1..Len(LowerLetters) : LowerLetters[k] = c
    THEN UpperLetters[CHOOSE k \in 1..Len(LowerLetters) : LowerLetters[k] = c]
    ELSE c

\* every spelling of w in upper and lower case
CaseVariants(w) ==
    {[k \in 1..Len(w) |-> IF up[k] THEN UpperChar(w[k]) ELSE LowerChar(w[k])] :
        up \in [1..Len(w) -> BOOLEAN]}

\* labels that match no entry: empty, unknown, padded, truncated
UnknownLabels ==
    {<<>>, <<"E","x","p","e","r","t">>, <<"E","a","s","y"," ">>,
     <<"M","e","d">>, <<"h","a","r","d","e","r">>}

DifficultyLabels ==
    UNION {CaseVariants(difficulties[k]) : k \in 1..Len(difficulties)}
        \cup UnknownLabels

AdaptDifficulty ==
    /\ dpc = "input"
    /\ next_difficulty' = adapt_difficulty(prev_score, current_difficulty)
    /\ dpc' = "done"
    /\ UNCHANGED <<prev_score, current_difficulty>>
    /\ UNCHANGED <<quizVars, matchVars, clusterVars, tipVars, llmVars,
                   tagVars, csvVars, syncVars, genVars, connVars>>

(***************************************************************************)
(* ai_service/app.py cluster_departments                                   *)
(***************************************************************************)
MaxDepts == 3

\* rows come back ORDER BY d.name; ids are unrelated to that order
DeptNames == <<"Arts", "Biology", "Chemistry", "Design", "Economics">>
DeptIds   == <<31, 12, 45, 7, 23>>

StudentCounts == {0, 1, 2}
OtherCounts ==
    {[faculty_count |-> 3, inactive_users |-> 0, pending_verifications |-> 5],
     [faculty_count |-> 1, inactive_users |-> 4, pending_verifications |-> 2]}

DeptRow(p, students, other) ==
    [id                    |-> DeptIds[p],
     name                  |-> DeptNames[p],
     student_count         |-> students,
     faculty_count         |-> other.faculty_count,
     inactive_users        |-> other.inactive_users,
     pending_verifications |-> other.pending_verifications]

DeptLists ==
    UNION {{[p \in 1..n |-> DeptRow(p, sc[p], oc[p])] :
                sc \in [1..n -> StudentCounts], oc \in [1..n -> OtherCounts]} :
           n \in 0..MaxDepts}

\* n_clusters = min(3, len(features))
MaxClusters == 3
NClusters(rows) == Min(MaxClusters, Len(rows))

\* kmeans.fit_predict(features): one label in 0..n_clusters-1 per row.  Which
\* rows share a label is the library's choice; every labelling is allowed.
KMeansLabellings(rows) == [1..Len(rows) -> 0..(NClusters(rows) - 1)]

RECURSIVE SumStudents(_, _)
SumStudents(rows, members) ==
    IF members = {} THEN 0
    ELSE LET p == CHOOSE m \in members : TRUE
         IN rows[p].student_count + SumStudents(rows, members \ {p})

\* df.groupby('cluster')['student_count'].mean().to_dict(): one mean per
\* label that occurs, as the exact fraction sum / count
ClusterIds(lab) == {lab[p] : p \in 1..Len(lab)}
ClusterMembers(lab, c) == {p \in 1..Len(lab) : lab[p] = c}
ClusterMean(rows, lab, c) ==
    Fraction(SumStudents(rows, ClusterMembers(lab, c)),
             Cardinality(ClusterMembers(lab, c)))

FracLess(x, y) == x.num * y.den < y.num * x.den
FracEq(x, y)   == x.num * y.den = y.num * x.den

\* variant: sorted without reverse=True, smallest mean first
SortedClustersAscending(rows, lab) ==
    LET ids == ClusterIds(lab)
        Before(d, c) ==
            \/ FracLess(ClusterMean(rows, lab, d), ClusterMean(rows, lab, c))
            \/ /\ FracEq(ClusterMean(rows, lab, c), ClusterMean(rows, lab, d))
               /\ d < c
        Place(c) == Cardinality({d \in ids : Before(d, c)}) + 1
    IN [i \in 1..Cardinality(ids) |-> CHOOSE c \in ids : Place(c) = i]

\* sorted(cluster_sizes.items(), key=lambda x: x[1], reverse=True): by mean,
\* largest first; the sort is stable, so equal means stay in the order of the
\* dict, which groupby gives in ascending label order
SortedClusters(rows, lab) ==
    LET ids == ClusterIds(lab)
        Before(d, c) ==
            \/ FracLess(ClusterMean(rows, lab, c), ClusterMean(rows, lab, d))
            \/ /\ FracEq(ClusterMean(rows, lab, c), ClusterMean(rows, lab, d))
               /\ d < c
        Place(c) == Cardinality({d \in ids : Before(d, c)}) + 1
    IN [i \in 1..Cardinality(ids) |-> CHOOSE c \in ids : Place(c) = i]

\* lines 181-185
DefaultDescriptions ==
    (0 :> "Large Departments") @@ (1 :> "Medium Departments")
        @@ (2 :> "Small Departments")

\* for i, (cluster_id, _) in enumerate(sorted_clusters): ...  (i is 1-based
\* here, i - 1 the python index)
RECURSIVE NameClusters(_, _, _, _)
NameClusters(sorted, i, k, desc) ==
    IF i > Len(sorted) THEN desc
    ELSE LET cluster_id == sorted[i]
             wrote(name) == (cluster_id :> name) @@ desc
         IN NameClusters(sorted, i + 1, k,
                IF i - 1 = 0 THEN wrote("Large Departments")
                ELSE IF i - 1 = 1 /\ k > 1 THEN wrote("Medium Departments")
                ELSE IF i - 1 = 2 /\ k > 2 THEN wrote("Small Departments")
                ELSE desc)

GroupDescriptions(rows, lab) ==
    IF NClusters(rows) <= 3
    THEN NameClusters(SortedClusters(rows, lab), 1, NClusters(rows),
                      DefaultDescriptions)
    ELSE DefaultDescriptions

\* group_descriptions.get(cluster_id, f"Group {cluster_id+1}")
GroupName(desc, cluster_id) ==
    IF cluster_id \in DOMAIN desc THEN desc[cluster_id]
    ELSE "Group " \o ToString(cluster_id + 1)

ResultRow(row, cluster_id, group_name) ==
    [department_id   |-> row.id,
     department_name |-> row.name,
     cluster         |-> cluster_id,
     group_name      |-> group_name,
     metrics         |-> [student_count         |-> row.student_count,
                          faculty_count         |-> row.faculty_count,
                          inactive_users        |-> row.inactive_users,
                          pending_verifications |-> row.pending_verifications]]

\* variant: entries grouped by cluster, clusters in ascending label order
ClusterRowsGrouped(rows, lab, desc) ==
    LET Before(q, p) == lab[q] < lab[p] \/ (lab[q] = lab[p] /\ q < p)
        Place(p) == Cardinality({q \in 1..Len(rows) : Before(q, p)}) + 1
        At(i) == CHOOSE p \in 1..Len(rows) : Place(p) = i
    IN [i \in 1..Len(rows) |->
            ResultRow(rows[At(i)], lab[At(i)], GroupName(desc, lab[At(i)]))]

\* lines 205-219: one entry per row of df, in row order
ClusterRows(rows, lab, desc) ==
    [p \in 1..Len(rows) |-> ResultRow(rows[p], lab[p], GroupName(desc, lab[p]))]

\* pd.DataFrame([]) has no columns, so df['student_count'] on line 143 raises
\* KeyError for an empty dept_data; one row takes the early return of line 155
cluster_departments(rows, lab) ==
    IF rows = <<>>
    THEN [raised |-> TRUE, list |-> <<>>]
    ELSE IF Len(rows) < 2
    THEN [raised |-> FALSE,
          list |-> [p \in 1..Len(rows) |->
                        ResultRow(rows[p], 0, "All Departments")]]
    ELSE [raised |-> FALSE,
          list |-> ClusterRows(rows, lab, GroupDescriptions(rows, lab))]

ClusterDepartments ==
    /\ cpc = "input"
    /\ \E lab \in (IF Len(dept_data) < 2 THEN {<<>>}
                   ELSE KMeansLabellings(dept_data)) :
          /\ labels' = lab
          /\ n_clusters' = IF Len(dept_data) < 2 THEN 0 ELSE NClusters(dept_data)
          /\ cluster_results' = cluster_departments(dept_data, lab)
    /\ cpc' = "done"
    /\ UNCHANGED dept_data
    /\ UNCHANGED <<quizVars, matchVars, diffVars, tipVars, llmVars, tagVars,
                   csvVars, syncVars, genVars, connVars>>

(***************************************************************************)
(* ai_tip_service/tip_generator.py: analysis dicts                         *)
(***************************************************************************)
MaxStudents  == 2      \* students in struggling_students / excelling_students
MaxActivity  == 2      \* departments in department_activity
MaxLLMTips   == 4      \* tips in the JSON array of an LLM response

None == "None"         \* Python None where a name is expected

Roles == {"student", "faculty", "admin", "guest"}

\* {"name": n, ...} under a key; `has` FALSE is the key missing from the dict
Entry(n)  == [has |-> TRUE, name |-> n]
NoEntry   == [has |-> FALSE, name |-> None]

SubjectNames == {None, "", "Math"}
SubjectEntries == {NoEntry} \cup {Entry(n) : n \in SubjectNames}

StudentIds == 1..MaxStudents

ActivityNames  == <<"", "CSE", "ECE", "MECH", "CIVIL">>
ActivityCounts == {0, 1, 2}

\* dicts keep insertion order: a list of <<name, count>> with distinct names
ActivityDicts ==
    {d \in SeqsUpTo({ActivityNames[k] : k \in 1..(MaxActivity + 1)}
                        \X ActivityCounts, MaxActivity) :
        \A i, j \in 1..Len(d) : i # j => d[i][1] # d[j][1]}

MkData(w, s, c, st, ex, hasAct, act) ==
    [weakest_subject          |-> w,
     strongest_subject        |-> s,
     most_challenging_subject |-> c,
     struggling_students      |-> st,
     excelling_students       |-> ex,
     has_department_activity  |-> hasAct,
     department_activity      |-> act]

EmptyData == MkData(NoEntry, NoEntry, NoEntry, {}, {}, FALSE, <<>>)

StudentData ==
    {MkData(w, s, NoEntry, {}, {}, FALSE, <<>>) :
        w \in SubjectEntries, s \in SubjectEntries}

FacultyData ==
    {MkData(NoEntry, NoEntry, c, st, ex, FALSE, <<>>) :
        c \in SubjectEntries, st \in SUBSET StudentIds,
        ex \in SUBSET StudentIds}

AdminData ==
    {EmptyData} \cup
    {MkData(NoEntry, NoEntry, NoEntry, {}, {}, TRUE, act) :
        act \in ActivityDicts}

AnalysisDicts(role) ==
    CASE role = "student" -> StudentData
      [] role = "faculty" -> FacultyData
      [] OTHER            -> AdminData

(***************************************************************************)
(* _generate_rule_based_tips                                               *)
(***************************************************************************)
Tip(c, t, p, u, about) ==
    [content |-> c, type |-> t, priority |-> p, ui_style |-> u,
     about |-> about]

\* truthiness of a name: None and "" are falsy
Truthy(n) == n # None /\ n # ""

\* data.get(key, {}).get("name")
NameOf(entry) == IF entry.has THEN entry.name ELSE None

WeakestTip(n)     == Tip("You might benefit from additional practice",
                         "quiz", 4, "standard", n)
StrongestTip(n)   == Tip("Great job", "quiz", 3, "success", n)
EngagementTip     == Tip("Regular participation helps reinforce learning",
                         "engagement", 2, "info", "")
ChallengingTip(n) == Tip("Students are finding it challenging",
                         "class_performance", 4, "warning", n)
StrugglingTip     == Tip("students are scoring below 60%",
                         "student_engagement", 5, "warning", "")
ExcellingTip      == Tip("students are excelling",
                         "student_engagement", 3, "success", "")
SystemHealthTip   == Tip("Platform is seeing active engagement",
                         "system_health", 3, "standard", "")
MostActiveTip(n)  == Tip("is the most active department",
                         "department_activity", 2, "success", n)
LeastActiveTip(n) == Tip("is the least active department",
                         "department_activity", 4, "warning", n)
GenericTip        == Tip("Keep using the platform", "engagement", 1,
                         "info", "")

\* max(items, key=count) / min(items, key=count): the first of the extremes
MaxItem(d) ==
    d[CHOOSE i \in 1..Len(d) :
        /\ \A j \in 1..Len(d) : d[j][2] <= d[i][2]
        /\ \A j \in 1..(i - 1) : d[j][2] < d[i][2]]

MinItem(d) ==
    d[CHOOSE i \in 1..Len(d) :
        /\ \A j \in 1..Len(d) : d[j][2] >= d[i][2]
        /\ \A j \in 1..(i - 1) : d[j][2] > d[i][2]]

When(cond, tip) == IF cond THEN <<tip>> ELSE <<>>

\* variant: the subject tips alone
StudentRulesSubjectsOnly(data) ==
    When(Truthy(NameOf(data.weakest_subject)),
         WeakestTip(NameOf(data.weakest_subject)))
    \o When(Truthy(NameOf(data.strongest_subject)),
            StrongestTip(NameOf(data.strongest_subject)))

StudentRules(data) ==
    When(Truthy(NameOf(data.weakest_subject)),
         WeakestTip(NameOf(data.weakest_subject)))
    \o When(Truthy(NameOf(data.strongest_subject)),
            StrongestTip(NameOf(data.strongest_subject)))
    \o <<EngagementTip>>

\* variant: the struggling-students tip ranks with the subject tip
FacultyRulesFlat(data) ==
    When(Truthy(NameOf(data.most_challenging_subject)),
         ChallengingTip(NameOf(data.most_challenging_subject)))
    \o When(data.struggling_students # {},
            [StrugglingTip EXCEPT !.priority = 4])
    \o When(data.excelling_students # {}, ExcellingTip)

FacultyRules(data) ==
    When(Truthy(NameOf(data.most_challenging_subject)),
         ChallengingTip(NameOf(data.most_challenging_subject)))
    \o When(data.struggling_students # {}, StrugglingTip)
    \o When(data.excelling_students # {}, ExcellingTip)

\* variant: the least-active tip does not look at the count
DepartmentRulesAnyCount(act) ==
    When(Truthy(MaxItem(act)[1]), MostActiveTip(MaxItem(act)[1]))
    \o When(Truthy(MinItem(act)[1]), LeastActiveTip(MinItem(act)[1]))

DepartmentRules(act) ==
    When(Truthy(MaxItem(act)[1]), MostActiveTip(MaxItem(act)[1]))
    \o When(Truthy(MinItem(act)[1]) /\ MinItem(act)[2] > 0,
            LeastActiveTip(MinItem(act)[1]))

AdminRules(data) ==
    <<SystemHealthTip>>
    \o (IF data.has_department_activity /\ data.department_activity # <<>>
        THEN DepartmentRules(data.department_activity)
        ELSE <<>>)

\* the tips of the role branch, before the generic tip and the cut
RoleRules(data, role) ==
    CASE role = "student" -> StudentRules(data)
      [] role = "faculty" -> FacultyRules(data)
      [] OTHER            -> AdminRules(data)

\* tips[:n]
Take(s, n) == SubSeq(s, 1, Min(n, Len(s)))

\* variant: no generic tip
WithGenericNever(tips) == tips

WithGeneric(tips) == IF Len(tips) < 3 THEN tips \o <<GenericTip>> ELSE tips

_generate_rule_based_tips(data, role) ==
    Take(WithGeneric(RoleRules(data, role)), 3)

(***************************************************************************)
(* The LLM path: _parse_claude_response, _generate_tip_with_claude,        *)
(* generate_tips_for_user                                                  *)
(***************************************************************************)
\* A response text is a list of tokens: "[" "]" "," , a JSON object that
\* holds a tip ("T1", "T2"), or a word of prose ("x").
TipTokens == {"T1", "T2"}

TipOfToken(t) ==
    IF t = "T1" THEN Tip("llm tip 1", "quiz", 5, "standard", "")
                ELSE Tip("llm tip 2", "forum", 2, "info", "")

\* "[" + "T,T,...,T" + "]"
RECURSIVE JoinTips(_)
JoinTips(ts) ==
    IF ts = <<>> THEN <<>>
    ELSE IF Len(ts) = 1 THEN ts
    ELSE <<Head(ts), ",">> \o JoinTips(Tail(ts))

ArrayText(ts) == <<"[">> \o JoinTips(ts) \o <<"]">>

Prose == {<<>>, <<"x">>}

ResponseTexts ==
    {ArrayText(ts) : ts \in SeqsUpTo(TipTokens, MaxLLMTips)}
    \cup {a \o ArrayText(ts) \o b :
            a \in Prose, b \in Prose, ts \in SeqsUpTo(TipTokens, 1)}
    \cup {<<>>, <<"x">>, <<"[">>, <<"x", "]">>, <<"]", "[">>,
          <<"[", "x", "]">>, <<"[", "T1", ",", "]">>,
          <<"[", "T1", "T2", "]">>, <<"[", "T1", "]", "x", "]">>}

\* messages.create either raises or returns a text
Raises      == [raises |-> TRUE,  text |-> <<>>]
Replies(t)  == [raises |-> FALSE, text |-> t]
LLMReplies  == {Raises} \cup {Replies(t) : t \in ResponseTexts}

\* str.find / str.rfind, 1-based, 0 when the character is absent
Find(s, c) ==
    IF \E k \in 1..Len(s) : s[k] = c
    THEN CHOOSE k \in 1..Len(s) : s[k] = c /\ \A j \in 1..(k - 1) : s[j] # c
    ELSE 0

RFind(s, c) ==
    IF \E k \in 1..Len(s) : s[k] = c
    THEN CHOOSE k \in 1..Len(s) :
             s[k] = c /\ \A j \in (k + 1)..Len(s) : s[j] # c
    ELSE 0

\* the tokens between the brackets are tip objects separated by commas
RECURSIVE ItemsOk(_)
ItemsOk(body) ==
    \/ Len(body) = 1 /\ body[1] \in TipTokens
    \/ /\ Len(body) >= 3
       /\ body[1] \in TipTokens
       /\ body[2] = ","
       /\ ItemsOk(SubSeq(body, 3, Len(body)))

RECURSIVE Items(_)
Items(body) ==
    IF body = <<>> THEN <<>>
    ELSE IF Len(body) = 1 THEN <<TipOfToken(body[1])>>
    ELSE <<TipOfToken(body[1])>> \o Items(SubSeq(body, 3, Len(body)))

\* json.loads of a text that starts with "[" and ends with "]"
JsonLoads(span) ==
    LET body == SubSeq(span, 2, Len(span) - 1)
    IN  IF Len(span) >= 2 /\ (body = <<>> \/ ItemsOk(body))
        THEN [raised |-> FALSE, list |-> Items(body)]
        ELSE [raised |-> TRUE, list |-> <<>>]

BasicTip    == Tip("the response text", "general", 3, "standard", "")
FallbackTip == Tip("Keep engaging with the platform", "engagement", 3,
                   "standard", "")

_parse_claude_response(response) ==
    LET start_idx == Find(response, "[")
        last      == RFind(response, "]")
        loaded    == JsonLoads(SubSeq(response, start_idx, last))
    IN  IF start_idx >= 1 /\ last >= start_idx
        THEN IF loaded.raised THEN <<FallbackTip>> ELSE loaded.list
        ELSE <<BasicTip>>

\* variant: a raising call yields no tips
generate_tip_with_claude_unguarded(data, role, ready, reply) ==
    IF ~ready THEN _generate_rule_based_tips(data, role)
    ELSE IF reply.raises THEN <<>>
    ELSE _parse_claude_response(reply.text)

_generate_tip_with_claude(data, role, ready, reply) ==
    IF ~ready THEN _generate_rule_based_tips(data, role)
    ELSE IF reply.raises THEN _generate_rule_based_tips(data, role)
    ELSE _parse_claude_response(reply.text)

generate_tips_for_user(data, role, ready, reply, db) ==
    IF role \in {"student", "faculty"}
    THEN _generate_tip_with_claude(data, role, ready, reply)
    ELSE IF db THEN _generate_tip_with_claude(data, "admin", ready, reply)
    ELSE _generate_rule_based_tips(EmptyData, "admin")

NoTips == <<>>

GenerateRuleBasedTips ==
    /\ "off" \notin tpc
    /\ "rules" \notin tpc
    /\ rule_tips' = _generate_rule_based_tips(tip_data, user_type)
    /\ tpc' = tpc \cup {"rules"}
    /\ UNCHANGED <<user_type, tip_data, client_ready, db_ok, llm_reply,
                   claude_tips, user_tips>>
    /\ UNCHANGED <<quizVars, matchVars, diffVars, clusterVars, llmVars,
                   tagVars, csvVars, syncVars, genVars, connVars>>

GenerateTipWithClaude ==
    /\ "off" \notin tpc
    /\ "claude" \notin tpc
    /\ claude_tips' =
           _generate_tip_with_claude(tip_data, user_type, client_ready,
                                     llm_reply)
    /\ tpc' = tpc \cup {"claude"}
    /\ UNCHANGED <<user_type, tip_data, client_ready, db_ok, llm_reply,
                   rule_tips, user_tips>>
    /\ UNCHANGED <<quizVars, matchVars, diffVars, clusterVars, llmVars,
                   tagVars, csvVars, syncVars, genVars, connVars>>

GenerateTipsForUser ==
    /\ "off" \notin tpc
    /\ "user" \notin tpc
    /\ user_tips' =
           generate_tips_for_user(tip_data, user_type, client_ready,
                                  llm_reply, db_ok)
    /\ tpc' = tpc \cup {"user"}
    /\ UNCHANGED <<user_type, tip_data, client_ready, db_ok, llm_reply,
                   rule_tips, claude_tips>>
    /\ UNCHANGED <<quizVars, matchVars, diffVars, clusterVars, llmVars,
                   tagVars, csvVars, syncVars, genVars, connVars>>

(***************************************************************************)
(* One request to a function that may call the LLM, step by step:          *)
(*   tips        tip_generator._generate_tip_with_claude                   *)
(*   questions   quiz_generator.generate_questions                         *)
(*   feedback    quiz_evaluator.generate_personalized_feedback             *)
(*   suggestions quiz_evaluator.suggest_next_questions                     *)
(***************************************************************************)
MaxMisconceptions == 2

Requests    == {"tips", "questions", "feedback", "suggestions"}
CallResults == {"raises", "bad_text", "good_text"}

\* the request returns before the call site: no client (tips), or nothing
\* to report (feedback, suggestions)
ReturnsEarly ==
    \/ request = "tips" /\ ~llm_client
    \/ request \in {"feedback", "suggestions"} /\ n_misconceptions = 0

\* variant: a failed call is made again, once
OnFailureRetry(calls) == IF calls < 2 THEN "start" ELSE "failed"

\* where control goes when messages.create raises: the except clause
OnFailure(calls) == "failed"

ReturnEarly ==
    /\ lpc = "start"
    /\ ReturnsEarly
    /\ llm_answer' = IF request = "tips" THEN "fallback" ELSE "preset"
    /\ lpc' = "returned"
    /\ UNCHANGED <<request, llm_client, n_misconceptions, call_result,
                   llm_calls>>
    /\ UNCHANGED <<quizVars, matchVars, diffVars, clusterVars, tipVars,
                   tagVars, csvVars, syncVars, genVars, connVars>>

CallLLM ==
    /\ lpc = "start"
    /\ ~ReturnsEarly
    /\ llm_calls' = llm_calls + 1
    /\ lpc' = IF call_result = "raises" THEN OnFailure(llm_calls')
              ELSE "called"
    /\ UNCHANGED <<request, llm_client, n_misconceptions, call_result,
                   llm_answer>>
    /\ UNCHANGED <<quizVars, matchVars, diffVars, clusterVars, tipVars,
                   tagVars, csvVars, syncVars, genVars, connVars>>

\* the text came back: parse it; a text that does not parse is answered with
\* the placeholder tip (tips) or the fallback questions (questions) on the
\* spot, and raises into the except clause in the two evaluator functions
ParseReply ==
    /\ lpc = "called"
    /\ IF call_result = "good_text"
       THEN llm_answer' = "llm" /\ lpc' = "returned"
       ELSE IF request \in {"tips", "questions"}
       THEN llm_answer' = "fallback" /\ lpc' = "returned"
       ELSE llm_answer' = llm_answer /\ lpc' = "failed"
    /\ UNCHANGED <<request, llm_client, n_misconceptions, call_result,
                   llm_calls>>
    /\ UNCHANGED <<quizVars, matchVars, diffVars, clusterVars, tipVars,
                   tagVars, csvVars, syncVars, genVars, connVars>>

\* except Exception: return the hard-coded fallback
ReturnFallback ==
    /\ lpc = "failed"
    /\ llm_answer' = "fallback"
    /\ lpc' = "returned"
    /\ UNCHANGED <<request, llm_client, n_misconceptions, call_result,
                   llm_calls>>
    /\ UNCHANGED <<quizVars, matchVars, diffVars, clusterVars, tipVars,
                   tagVars, csvVars, syncVars, genVars, connVars>>

(***************************************************************************)
(* forum_nlp_service.py: extract_tags                                      *)
(***************************************************************************)
MaxTokens   == 3      \* tokens of the text
MaxEnts     == 1      \* entities spaCy finds in the text
MaxTagLimit == 2      \* largest max_tags

\* words of a cleaned (lower-cased) text
Words == {<<"s", "q", "l">>, <<"j", "a", "v", "a">>,
          <<"l", "o", "o", "p", "s">>}

Token(w, pos)  == [text |-> w, pos_ |-> pos]
Ent(w, label)  == [text |-> w, label_ |-> label]

\* what the spaCy pipeline may hand back for a text: any tagging
TokenLists == SeqsUpTo({Token(w, pos) : w \in Words, pos \in {"NOUN", "VERB"}},
                       MaxTokens)
EntLists   == SeqsUpTo({Ent(w, l) : w \in Words, l \in {"ORG", "DATE"}},
                       MaxEnts)

TagPos    == {"NOUN", "PROPN"}
TagLabels == {"ORG", "PRODUCT", "PERSON", "GPE", "LOC", "EVENT",
              "WORK_OF_ART"}

\* [x.text for x in xs if keep(x)]
RECURSIVE Nouns(_)
Nouns(tokens) ==
    IF tokens = <<>> THEN <<>>
    ELSE (IF Head(tokens).pos_ \in TagPos /\ Len(Head(tokens).text) > 3
          THEN <<Head(tokens).text>> ELSE <<>>) \o Nouns(Tail(tokens))

RECURSIVE Entities(_)
Entities(ents) ==
    IF ents = <<>> THEN <<>>
    ELSE (IF Head(ents).label_ \in TagLabels
          THEN <<Head(ents).text>> ELSE <<>>) \o Entities(Tail(ents))

AllCandidates(tokens, ents) == Nouns(tokens) \o Entities(ents)

\* tag_counts: a dict in insertion order, as a list of <<tag, count>>
RECURSIVE CountTags(_, _)
CountTags(cands, counts) ==
    IF cands = <<>> THEN counts
    ELSE LET tag == Lower(Head(cands))
             at  == {k \in 1..Len(counts) : counts[k][1] = tag}
         IN  CountTags(Tail(cands),
                 IF at = {} THEN Append(counts, <<tag, 1>>)
                 ELSE [counts EXCEPT ![CHOOSE k \in at : TRUE] =
                           <<tag, counts[CHOOSE k \in at : TRUE][2] + 1>>])

\* sorted(items, key=count, reverse=True): stable, by insertion
RECURSIVE InsertByCount(_, _)
InsertByCount(item, sorted) ==
    IF sorted = <<>> THEN <<item>>
    ELSE IF Head(sorted)[2] >= item[2]
    THEN <<Head(sorted)>> \o InsertByCount(item, Tail(sorted))
    ELSE <<item>> \o sorted

RECURSIVE SortByCount(_, _)
SortByCount(items, sorted) ==
    IF items = <<>> THEN sorted
    ELSE SortByCount(Tail(items), InsertByCount(Head(items), sorted))

InList(x, xs) == \E k \in 1..Len(xs) : xs[k] = x

\* the selection loop: append, then leave when the list has max_tags tags
RECURSIVE SelectTags(_, _, _)
SelectTags(sorted, unique, limit) ==
    IF sorted = <<>> THEN unique
    ELSE LET tag  == Head(sorted)[1]
             next == IF ~InList(tag, unique) /\ Len(tag) > 3
                     THEN Append(unique, tag) ELSE unique
         IN  IF Len(next) = limit THEN next
             ELSE SelectTags(Tail(sorted), next, limit)

extract_tags(tokens, ents, limit) ==
    SelectTags(SortByCount(CountTags(AllCandidates(tokens, ents), <<>>), <<>>),
               <<>>, limit)

ExtractTags ==
    /\ gpc = "input"
    /\ unique_tags' = extract_tags(doc_tokens, doc_ents, max_tags)
    /\ gpc' = "done"
    /\ UNCHANGED <<doc_tokens, doc_ents, max_tags>>
    /\ UNCHANGED <<quizVars, matchVars, diffVars, clusterVars, tipVars,
                   llmVars, csvVars, syncVars, genVars, connVars>>

(***************************************************************************)
(* process_csv.py: validate_student_data                                   *)
(***************************************************************************)
MaxRows == 2

\* a cell is NaN (empty in the file, or its column missing) or a text
NaN       == [nan |-> TRUE,  text |-> <<>>]
Cell(t)   == [nan |-> FALSE, text |-> t]
IsNa(c)   == c.nan                          \* pd.isna

EmailCells ==
    {NaN,
     Cell(<<" ", "a", "@", "b", ".", "c", " ">>),
     Cell(<<"a", "@", "b">>),
     Cell(<<"a", ".", "b">>),
     Cell(<<" ">>)}

IdCells   == {NaN, Cell(<<" ", "7", " ">>), Cell(<<"7">>), Cell(<<" ">>)}
DeptCells == {NaN, Cell(<<" ", "c", "s">>)}

Columns == {"email", "student_id", "department_name"}

Row(e, i, d) == [email |-> e, student_id |-> i, department_name |-> d]

\* the rows a table with the given columns can hold
RowsOver(cols) ==
    {Row(e, i, d) :
        e \in (IF "email" \in cols THEN EmailCells ELSE {NaN}),
        i \in (IF "student_id" \in cols THEN IdCells ELSE {NaN}),
        d \in (IF "department_name" \in cols THEN DeptCells ELSE {NaN})}

ColumnSets == (SUBSET Columns) \ {{}}

\* None where a record has no value; "N/A" in an error without an email
NoValue == [none |-> TRUE,  text |-> <<>>]
Value(t) == [none |-> FALSE, text |-> t]

NotAvailable == <<"N", "/", "A">>

ErrorEntry(email, reason) == [email |-> email, reason |-> reason]

\* str(cell).strip() if the column is there and the cell is not NaN
Optional(cols, name, cell) ==
    IF name \in cols /\ ~IsNa(cell) THEN Value(Strip(cell.text)) ELSE NoValue

\* variant: an email with one of the two characters passes
EmailFormatOkEither(email) ==
    Contains(email, <<"@">>) \/ Contains(email, <<".">>)

\* not ('@' not in email or '.' not in email)
EmailFormatOk(email) ==
    ~(~Contains(email, <<"@">>) \/ ~Contains(email, <<".">>))

StudentRecord(cols, row) ==
    [email           |-> Strip(row.email.text),
     student_id      |-> Strip(row.student_id.text),
     department_name |-> Optional(cols, "department_name",
                                  row.department_name),
     first_name      |-> NoValue,
     last_name       |-> NoValue]

EmptyValidation == [valid_records |-> <<>>, errors |-> <<>>]

\* for idx, row in df.iterrows()
RECURSIVE ValidateRows(_, _, _)
ValidateRows(cols, rows, result) ==
    IF rows = <<>> THEN result
    ELSE LET row == Head(rows)
         IN  ValidateRows(cols, Tail(rows),
                 IF IsNa(row.email) \/ IsNa(row.student_id)
                 THEN [result EXCEPT !.errors =
                          Append(@, ErrorEntry(
                              IF IsNa(row.email) THEN NotAvailable
                              ELSE row.email.text,
                              "Missing required field"))]
                 ELSE IF ~EmailFormatOk(Strip(row.email.text))
                 THEN [result EXCEPT !.errors =
                          Append(@, ErrorEntry(Strip(row.email.text),
                                               "Invalid email format"))]
                 ELSE [result EXCEPT !.valid_records =
                          Append(@, StudentRecord(cols, row))])

validate_student_data(cols, rows) ==
    IF rows = <<>> THEN EmptyValidation                      \* df.empty
    ELSE IF {"email", "student_id"} \ cols # {}
    THEN [EmptyValidation EXCEPT !.errors =
             <<ErrorEntry(NotAvailable, "missing required columns")>>]
    ELSE ValidateRows(cols, rows, EmptyValidation)

ValidateStudentData ==
    /\ vpc = "input"
    /\ validation' = validate_student_data(df_columns, df_rows)
    /\ vpc' = "done"
    /\ UNCHANGED <<df_columns, df_rows, csv_payload>>
    /\ UNCHANGED <<quizVars, matchVars, diffVars, clusterVars, tipVars,
                   llmVars, tagVars, syncVars, genVars, connVars>>

(***************************************************************************)
(* process_csv.py: process_csv_file, process_csv_content                   *)
(***************************************************************************)
\* the payload of a file that was read and validated
Processed(valid_records, errors, total) ==
    [success       |-> TRUE,
     valid_records |-> valid_records,
     errors        |-> errors,
     counted       |-> TRUE,
     total_records |-> total,
     valid_count   |-> Len(valid_records),
     error_count   |-> Len(errors)]

\* the payload without counts: file not found, or an exception
NotProcessed(reason) ==
    [success       |-> FALSE,
     valid_records |-> <<>>,
     errors        |-> <<ErrorEntry(NotAvailable, reason)>>,
     counted       |-> FALSE,
     total_records |-> 0,
     valid_count   |-> 0,
     error_count   |-> 0]

NoPayload == NotProcessed("")

\* df is the frame read_csv gave, cols its cleaned column names
process_csv_content(cols, rows) ==
    LET validation_result == validate_student_data(cols, rows)
    IN  Processed(validation_result.valid_records, validation_result.errors,
                  Len(rows))

process_csv_file(exists, cols, rows) ==
    IF ~exists THEN NotProcessed("File not found")
    ELSE process_csv_content(cols, rows)

ProcessCsvContent ==
    /\ vpc = "input"
    /\ csv_payload' = process_csv_content(df_columns, df_rows)
    /\ vpc' = "content"
    /\ UNCHANGED <<df_columns, df_rows, validation>>
    /\ UNCHANGED <<quizVars, matchVars, diffVars, clusterVars, tipVars,
                   llmVars, tagVars, syncVars, genVars, connVars>>

ProcessCsvFile ==
    /\ vpc = "input"
    /\ \E exists \in BOOLEAN :
           csv_payload' = process_csv_file(exists, df_columns, df_rows)
    /\ vpc' = "file"
    /\ UNCHANGED <<df_columns, df_rows, validation>>
    /\ UNCHANGED <<quizVars, matchVars, diffVars, clusterVars, tipVars,
                   llmVars, tagVars, syncVars, genVars, connVars>>

(***************************************************************************)
(* sync_content_access.py: sync_content_access                             *)
(***************************************************************************)
MaxRecords == 2

\* student.get(key): None for a missing key, else the text
SyncEmails == {NoValue, Value(<<>>), Value(<<"a", "@", "b">>)}
SyncIds    == {NoValue, Value(<<>>), Value(<<"7">>)}
SyncDepts  == {NoValue, Value(<<>>), Value(<<"c", "s">>), Value(<<"e", "e">>)}

Student(e, i, d) == [email |-> e, student_id |-> i, department_name |-> d]

Students == {Student(e, i, d) : e \in SyncEmails, i \in SyncIds,
                                d \in SyncDepts}

\* `not x` for x None or a str
Falsy(v) == v.none \/ v.text = <<>>

AllFaculty == <<" ", "-", " ", "A", "l", "l", " ", "F", "a", "c", "u", "l",
                "t", "y">>

SyncRecord(student) ==
    [email            |-> student.email.text,
     student_id       |-> student.student_id.text,
     department_name  |-> student.department_name.text,
     subjects_faculty |-> student.department_name.text \o AllFaculty]

Summary(total, synced, error, by_department) ==
    [total |-> total, synced |-> synced, error |-> error,
     by_department |-> by_department]

SyncResult(success, synced_students, errors, summary) ==
    [success |-> success, synced_students |-> synced_students,
     errors |-> errors, summary |-> summary]

InitialResult(data) ==
    SyncResult(TRUE, <<>>, <<>>, Summary(Len(data), 0, 0, <<>>))

\* department_counts: a dict in insertion order, a list of <<name, count>>
CountDepartment(counts, name) ==
    LET at == {k \in 1..Len(counts) : counts[k][1] = name}
    IN  IF at = {} THEN Append(counts, <<name, 1>>)
        ELSE [counts EXCEPT ![CHOOSE k \in at : TRUE] =
                 <<name, counts[CHOOSE k \in at : TRUE][2] + 1>>]

\* variant: the error is listed but not counted
WithErrorUncounted(result, email, reason) ==
    [result EXCEPT !.errors = Append(@, ErrorEntry(email, reason))]

WithError(result, email, reason) ==
    [result EXCEPT !.errors = Append(@, ErrorEntry(email, reason)),
                   !.summary.error = @ + 1]

\* variant: a record without a department is synced under the empty name
SyncStudentAnyDepartment(state, student) ==
    IF Falsy(student.email) \/ Falsy(student.student_id)
    THEN [state EXCEPT !.result =
             WithError(@, IF Falsy(student.email) THEN NotAvailable
                          ELSE student.email.text,
                       "Missing required fields (email or student_id)")]
    ELSE [result |-> [state.result EXCEPT
                         !.synced_students = Append(@, SyncRecord(student)),
                         !.summary.synced = @ + 1],
          counts |-> CountDepartment(state.counts,
                                     student.department_name.text)]

\* one pass of the loop body; state is <<result, department_counts>>
SyncStudent(state, student) ==
    IF Falsy(student.email) \/ Falsy(student.student_id)
    THEN [state EXCEPT !.result =
             WithError(@, IF Falsy(student.email) THEN NotAvailable
                          ELSE student.email.text,
                       "Missing required fields (email or student_id)")]
    ELSE IF Falsy(student.department_name)
    THEN [state EXCEPT !.result =
             WithError(@, student.email.text,
                       "No department specified for content access")]
    ELSE [result |-> [state.result EXCEPT
                         !.synced_students = Append(@, SyncRecord(student)),
                         !.summary.synced = @ + 1],
          counts |-> CountDepartment(state.counts,
                                     student.department_name.text)]

RECURSIVE SyncLoop(_, _)
SyncLoop(data, state) ==
    IF data = <<>> THEN state
    ELSE SyncLoop(Tail(data), SyncStudent(state, Head(data)))

sync_content_access(data) ==
    IF data = <<>>
    THEN [InitialResult(data) EXCEPT
             !.success = FALSE,
             !.errors = <<ErrorEntry(NotAvailable,
                                     "No student data provided")>>]
    ELSE LET final == SyncLoop(data, [result |-> InitialResult(data),
                                      counts |-> <<>>])
         IN  [final.result EXCEPT !.summary.by_department = final.counts]

SyncContentAccess ==
    /\ spc = "input"
    /\ sync_result' = sync_content_access(student_data)
    /\ spc' = "done"
    /\ UNCHANGED student_data
    /\ UNCHANGED <<quizVars, matchVars, diffVars, clusterVars, tipVars,
                   llmVars, tagVars, csvVars, genVars, connVars>>

(***************************************************************************)
(* quiz_generator.py: generate_questions, generate_fallback_questions      *)
(***************************************************************************)
MaxNumQuestions == 16     \* largest num_questions
MaxLLMQuestions == 2      \* questions in a parsed LLM response

\* a question dict of the generator; `has` is the set of its keys
GenQuestion(has, t, opts, ci, ca) ==
    [has |-> has, type |-> t, options |-> opts, correctIndex |-> ci,
     correctAnswer |-> ca]

Basics == {"question", "options", "explanation"}

TrueFalse == <<"True", "False">>

\* what a parsed response may hold: well-formed questions of each type,
\* questions to repair, a question without type, of an unknown type, and one
\* that lacks a required key
LLMQuestions ==
    {GenQuestion(Basics \cup {"type", "correctIndex"}, "mcq",
                 <<"a", "b", "c", "d">>, 2, ""),
     GenQuestion(Basics \cup {"type", "correctIndex"}, "mcq",
                 <<"a", "b", "c", "d", "e">>, 7, ""),
     GenQuestion(Basics \cup {"type"}, "mcq", <<"a", "b", "c">>, 0, ""),
     GenQuestion(Basics \cup {"correctAnswer"}, "", <<>>, 0, "x"),
     GenQuestion(Basics \cup {"correctIndex"}, "", TrueFalse, 1, ""),
     GenQuestion(Basics \cup {"type", "correctIndex"}, "true_false",
                 <<"Yes", "No">>, 3, ""),
     GenQuestion(Basics \cup {"type", "correctAnswer"}, "short_answer",
                 <<"a">>, 0, ""),
     GenQuestion(Basics \cup {"type"}, "essay", <<>>, 0, ""),
     GenQuestion({"question", "options", "type"}, "mcq",
                 <<"a", "b", "c", "d">>, 0, "")}

\* the call raises, the text is no JSON, or the text parses to a list
GenRaises     == [kind |-> "raises",   questions |-> <<>>]
GenBadJson    == [kind |-> "bad_json", questions |-> <<>>]
GenParsed(qs) == [kind |-> "parsed",   questions |-> qs]

GenReplies ==
    {GenRaises, GenBadJson}
        \cup {GenParsed(qs) : qs \in SeqsUpTo(LLMQuestions, MaxLLMQuestions)}

\* content of at most 40000 characters; longer content; longer content
\* with a heading line that is not at its start
Contents == {"short", "long", "long_heading"}

GenDifficulties ==
    {difficulties[k] : k \in 1..Len(difficulties)}
        \cup {Lower(difficulties[1]), <<"E", "x", "p", "e", "r", "t">>}

\* number of questions of each type
NumMcq(n)   == Min(8, n - 7)
NumTf(n)    == Min(4, n - NumMcq(n) - 3)
NumShort(n) == Min(3, n - NumMcq(n) - NumTf(n))

\* range(n) / while count < n: nothing for n <= 0
Repeat(x, n) == [k \in 1..Max(n, 0) |-> x]

FallbackMcq ==
    GenQuestion(Basics \cup {"type", "correctIndex"}, "mcq",
                <<"First option", "Second option", "Third option",
                  "Fourth option">>, 0, "")
FallbackTf ==
    GenQuestion(Basics \cup {"type", "correctIndex"}, "true_false",
                TrueFalse, 0, "")
FallbackShort ==
    GenQuestion(Basics \cup {"type", "correctAnswer"}, "short_answer",
                <<>>, 0, "Placeholder answer")

generate_fallback_questions(n) ==
    Repeat(FallbackMcq, NumMcq(n)) \o Repeat(FallbackTf, NumTf(n))
        \o Repeat(FallbackShort, NumShort(n))

PlaceholderMcq ==
    GenQuestion(Basics \cup {"type", "correctIndex"}, "mcq",
                <<"Option 1", "Option 2", "Option 3", "Option 4">>, 0, "")
PlaceholderTf ==
    GenQuestion(Basics \cup {"type", "correctIndex"}, "true_false",
                TrueFalse, 0, "")
PlaceholderShort ==
    GenQuestion(Basics \cup {"type", "correctAnswer"}, "short_answer",
                <<>>, 0, "Sample answer")

OptionLabels == <<"Option 1", "Option 2", "Option 3", "Option 4">>

\* options[:4], or options padded with "Option k" up to 4
FourOptions(opts) ==
    [k \in 1..4 |-> IF k <= Len(opts) THEN opts[k] ELSE OptionLabels[k]]

\* the type the question is given when it has none
InferType(q) ==
    IF "type" \in q.has THEN q.type
    ELSE IF Len(q.options) = 0 THEN "short_answer"
    ELSE IF Len(q.options) = 2
            /\ "True" \in {q.options[k] : k \in 1..2}
            /\ "False" \in {q.options[k] : k \in 1..2}
    THEN "true_false"
    ELSE "mcq"

ValidIndex(q, n) ==
    IF "correctIndex" \notin q.has \/ ~(0 <= q.correctIndex /\ q.correctIndex < n)
    THEN 0 ELSE q.correctIndex

\* the question as it is appended, by type
Repaired(q) ==
    LET t == InferType(q)
        typed == [q EXCEPT !.has = @ \cup {"type"}, !.type = t]
    IN  IF t = "mcq"
        THEN [typed EXCEPT !.options = FourOptions(q.options),
                           !.has = @ \cup {"correctIndex"},
                           !.correctIndex = ValidIndex(q, 4)]
        ELSE IF t = "true_false"
        THEN [typed EXCEPT !.options = TrueFalse,
                           !.has = @ \cup {"correctIndex"},
                           !.correctIndex = ValidIndex(q, 2)]
        ELSE IF t = "short_answer"
        THEN [typed EXCEPT !.options = <<>>,
                           !.has = @ \cup {"correctAnswer"},
                           !.correctAnswer =
                               IF "correctAnswer" \notin q.has
                                      \/ q.correctAnswer = ""
                               THEN "Answer not provided"
                               ELSE q.correctAnswer]
        ELSE typed

Counts(mcq, tf, short) == [mcq |-> mcq, tf |-> tf, short |-> short]

Enough(c, n) ==
    c.mcq >= NumMcq(n) /\ c.tf >= NumTf(n) /\ c.short >= NumShort(n)

\* for q in questions: ... ; returns the validated list and the counts
RECURSIVE ValidateQuestions(_, _, _, _)
ValidateQuestions(qs, validated, c, n) ==
    IF qs = <<>> THEN [validated |-> validated, counts |-> c]
    ELSE LET q == Head(qs)
             t == InferType(q)
             full == \/ t = "mcq" /\ c.mcq >= NumMcq(n)
                     \/ t = "true_false" /\ c.tf >= NumTf(n)
                     \/ t = "short_answer" /\ c.short >= NumShort(n)
             c2 == Counts(c.mcq + (IF t = "mcq" THEN 1 ELSE 0),
                          c.tf + (IF t = "true_false" THEN 1 ELSE 0),
                          c.short + (IF t = "short_answer" THEN 1 ELSE 0))
         IN  IF ~(Basics \subseteq q.has) \/ full
             THEN ValidateQuestions(Tail(qs), validated, c, n)
             ELSE IF Enough(c2, n)
             THEN [validated |-> Append(validated, Repaired(q)),
                   counts |-> c2]
             ELSE ValidateQuestions(Tail(qs), Append(validated, Repaired(q)),
                                    c2, n)

\* the validated questions, then placeholders up to the count of each type
FilledUp(qs, n) ==
    LET v == ValidateQuestions(qs, <<>>, Counts(0, 0, 0), n)
    IN  v.validated
            \o Repeat(PlaceholderMcq, NumMcq(n) - v.counts.mcq)
            \o Repeat(PlaceholderTf, NumTf(n) - v.counts.tf)
            \o Repeat(PlaceholderShort, NumShort(n) - v.counts.short)

KnownDifficulty(d) == \E k \in 1..Len(difficulties) : difficulties[k] = d

\* `import re` in the branch for long content makes re a local name of the
\* function: for short content re.search raises inside the try, and for long
\* content with a heading range(chunk[0], chunk[-1]) raises before it
generate_questions(content, d, n, reply) ==
    IF content = "long_heading" \/ ~KnownDifficulty(d)
    THEN [raised |-> TRUE, list |-> <<>>]      \* difficulty_description[d]
    ELSE IF content = "long" /\ reply.kind = "parsed"
    THEN [raised |-> FALSE, list |-> FilledUp(reply.questions, n)]
    ELSE [raised |-> FALSE, list |-> generate_fallback_questions(n)]

GenerateQuestions ==
    /\ "off" \notin npc
    /\ "generate" \notin npc
    /\ questions_out' = generate_questions(gen_content, gen_difficulty,
                                           num_questions, gen_reply)
    /\ npc' = npc \cup {"generate"}
    /\ UNCHANGED <<gen_content, gen_difficulty, num_questions, gen_reply,
                   fallback_out>>
    /\ UNCHANGED <<quizVars, matchVars, diffVars, clusterVars, tipVars,
                   llmVars, tagVars, csvVars, syncVars, connVars>>

GenerateFallbackQuestions ==
    /\ "off" \notin npc
    /\ "fallback" \notin npc
    /\ fallback_out' = generate_fallback_questions(num_questions)
    /\ npc' = npc \cup {"fallback"}
    /\ UNCHANGED <<gen_content, gen_difficulty, num_questions, gen_reply,
                   questions_out>>
    /\ UNCHANGED <<quizVars, matchVars, diffVars, clusterVars, tipVars,
                   llmVars, tagVars, csvVars, syncVars, connVars>>

(***************************************************************************)
(* ai_service/app.py: get_insights and its database connection             *)
(***************************************************************************)
MaxDepartmentRows == 3    \* departments the query returns
MaxInactiveRows   == 2    \* rows of the inactive-user and statistics queries

\* variant: the finally clause closes without looking at locals()
conn_assumed(got) == TRUE

\* 'conn' in locals()
conn_in_locals(got) == got

\* except Exception: the error payload, then the finally clause
Caught ==
    /\ insights_response' = "error"
    /\ ipc' = "finally"

\* conn = get_db_connection()
Connect ==
    /\ ipc = "connect"
    /\ \/ /\ obtained' = TRUE
          /\ conn_state' = "open"
          /\ ipc' = "departments"
          /\ UNCHANGED insights_response
       \/ /\ Caught
          /\ UNCHANGED <<obtained, conn_state>>
    /\ UNCHANGED <<closes, dept_rows, inactive_rows, stats_rows,
                   recommendations>>
    /\ UNCHANGED <<quizVars, matchVars, diffVars, clusterVars, tipVars, llmVars,
                   tagVars, csvVars, syncVars, genVars>>

\* dept_data = get_department_data(conn), and the early return
GetDepartmentData ==
    /\ ipc = "departments"
    /\ \/ \E n \in 0..MaxDepartmentRows :
              /\ dept_rows' = n
              /\ IF n < 2
                 THEN insights_response' = "insufficient" /\ ipc' = "finally"
                 ELSE ipc' = "cluster" /\ UNCHANGED insights_response
       \/ /\ Caught
          /\ UNCHANGED dept_rows
    /\ UNCHANGED <<obtained, conn_state, closes, inactive_rows, stats_rows,
                   recommendations>>
    /\ UNCHANGED <<quizVars, matchVars, diffVars, clusterVars, tipVars, llmVars,
                   tagVars, csvVars, syncVars, genVars>>

\* department_groups = cluster_departments(dept_data)
ClusterDepartmentsStep ==
    /\ ipc = "cluster"
    /\ \/ ipc' = "inactive" /\ UNCHANGED insights_response
       \/ Caught
    /\ UNCHANGED <<obtained, conn_state, closes, dept_rows, inactive_rows,
                   stats_rows, recommendations>>
    /\ UNCHANGED <<quizVars, matchVars, diffVars, clusterVars, tipVars, llmVars,
                   tagVars, csvVars, syncVars, genVars>>

\* inactive_data = get_inactive_users_data(conn)
GetInactiveUsersData ==
    /\ ipc = "inactive"
    /\ \/ \E n \in 0..MaxInactiveRows :
              /\ inactive_rows' = n
              /\ ipc' = "verification"
              /\ UNCHANGED insights_response
       \/ /\ Caught
          /\ UNCHANGED inactive_rows
    /\ UNCHANGED <<obtained, conn_state, closes, dept_rows, stats_rows,
                   recommendations>>
    /\ UNCHANGED <<quizVars, matchVars, diffVars, clusterVars, tipVars, llmVars,
                   tagVars, csvVars, syncVars, genVars>>

\* verification_stats = get_verification_stats(conn)
GetVerificationStats ==
    /\ ipc = "verification"
    /\ \/ \E n \in 0..MaxInactiveRows :
              /\ stats_rows' = n
              /\ ipc' = "recommend"
              /\ UNCHANGED insights_response
       \/ /\ Caught
          /\ UNCHANGED stats_rows
    /\ UNCHANGED <<obtained, conn_state, closes, dept_rows, inactive_rows,
                   recommendations>>
    /\ UNCHANGED <<quizVars, matchVars, diffVars, clusterVars, tipVars, llmVars,
                   tagVars, csvVars, syncVars, genVars>>

\* ai_recommendations = generate_ai_recommendations(...): the text of the
\* LLM, its own placeholder when the call fails, or an exception raised
\* while the prompt is built; then return jsonify({"insights": insights})
GenerateAIRecommendations ==
    /\ ipc = "recommend"
    /\ \/ \E text \in {"text", "unavailable"} :
              /\ recommendations' = text
              /\ insights_response' = "insights"
              /\ ipc' = "finally"
       \/ /\ Caught
          /\ UNCHANGED recommendations
    /\ UNCHANGED <<obtained, conn_state, closes, dept_rows, inactive_rows,
                   stats_rows>>
    /\ UNCHANGED <<quizVars, matchVars, diffVars, clusterVars, tipVars, llmVars,
                   tagVars, csvVars, syncVars, genVars>>

\* finally: if 'conn' in locals(): conn.close(); the response is returned
Finally ==
    /\ ipc = "finally"
    /\ IF conn_in_locals(obtained)
       THEN closes' = closes + 1 /\ conn_state' = "closed"
       ELSE UNCHANGED <<closes, conn_state>>
    /\ ipc' = "returned"
    /\ UNCHANGED <<obtained, dept_rows, inactive_rows, stats_rows,
                   recommendations, insights_response>>
    /\ UNCHANGED <<quizVars, matchVars, diffVars, clusterVars, tipVars, llmVars,
                   tagVars, csvVars, syncVars, genVars>>

(***************************************************************************)
(* Specifications: one per component.  The component named by `part` starts *)
(* with its arguments drawn from the input sets, the others stay off.       *)
(***************************************************************************)
Start(part) ==
    /\ qpc = IF part = "quiz" THEN "input" ELSE "off"
    /\ student_answers \in (IF part = "quiz" THEN AnswerLists ELSE {<<>>})
    /\ quiz_questions \in (IF part = "quiz" THEN QuestionLists ELSE {<<>>})
    /\ score = NoScore
    /\ misconceptions = NoResult
    /\ mpc = IF part = "match" THEN "input" ELSE "off"
    /\ text_a \in (IF part = "match" THEN Texts ELSE {<<>>})
    /\ text_b \in (IF part = "match" THEN Texts ELSE {<<>>})
    /\ credit_ab = FALSE
    /\ credit_ba = FALSE
    /\ missed_ab = FALSE
    /\ missed_ba = FALSE
    /\ dpc = IF part = "difficulty" THEN "input" ELSE "off"
    /\ prev_score \in (IF part = "difficulty" THEN 0..100 ELSE {0})
    /\ current_difficulty \in
           (IF part = "difficulty" THEN DifficultyLabels ELSE {<<>>})
    /\ next_difficulty = <<>>
    /\ cpc = IF part = "cluster" THEN "input" ELSE "off"
    /\ dept_data \in (IF part = "cluster" THEN DeptLists ELSE {<<>>})
    /\ n_clusters = 0
    /\ labels = <<>>
    /\ cluster_results = NoResult
    /\ tpc = IF part = "tips" THEN {} ELSE {"off"}
    /\ user_type \in (IF part = "tips" THEN Roles ELSE {"student"})
    /\ tip_data \in
           (IF part = "tips" THEN AnalysisDicts(user_type) ELSE {EmptyData})
    /\ client_ready \in (IF part = "tips" THEN BOOLEAN ELSE {FALSE})
    /\ db_ok \in (IF part = "tips" /\ user_type \notin {"student", "faculty"}
                  THEN BOOLEAN ELSE {TRUE})
    /\ llm_reply \in
           (IF part = "tips" /\ client_ready THEN LLMReplies ELSE {Raises})
    /\ rule_tips = NoTips
    /\ claude_tips = NoTips
    /\ user_tips = NoTips
    /\ lpc = IF part = "llm" THEN "start" ELSE "off"
    /\ request \in (IF part = "llm" THEN Requests ELSE {"tips"})
    /\ llm_client \in (IF part = "llm" THEN BOOLEAN ELSE {FALSE})
    /\ n_misconceptions \in
           (IF part = "llm" THEN 0..MaxMisconceptions ELSE {0})
    /\ call_result \in (IF part = "llm" THEN CallResults ELSE {"raises"})
    /\ llm_calls = 0
    /\ llm_answer = "none"
    /\ gpc = IF part = "tags" THEN "input" ELSE "off"
    /\ doc_tokens \in (IF part = "tags" THEN TokenLists ELSE {<<>>})
    /\ doc_ents \in (IF part = "tags" THEN EntLists ELSE {<<>>})
    /\ max_tags \in (IF part = "tags" THEN 0..MaxTagLimit ELSE {0})
    /\ unique_tags = <<>>
    /\ vpc = IF part = "csv" THEN "input" ELSE "off"
    /\ df_columns \in (IF part = "csv" THEN ColumnSets ELSE {{"email"}})
    /\ df_rows \in
           (IF part = "csv" THEN SeqsUpTo(RowsOver(df_columns), MaxRows)
            ELSE {<<>>})
    /\ validation = EmptyValidation
    /\ csv_payload = NoPayload
    /\ spc = IF part = "sync" THEN "input" ELSE "off"
    /\ student_data \in
           (IF part = "sync" THEN SeqsUpTo(Students, MaxRecords) ELSE {<<>>})
    /\ sync_result = InitialResult(<<>>)
    /\ npc = IF part = "generator" THEN {} ELSE {"off"}
    /\ gen_content \in (IF part = "generator" THEN Contents ELSE {"short"})
    /\ gen_difficulty \in
           (IF part = "generator" THEN GenDifficulties ELSE {<<>>})
    /\ num_questions \in
           (IF part = "generator" THEN 1..MaxNumQuestions ELSE {1})
    /\ gen_reply \in (IF part = "generator" THEN GenReplies ELSE {GenRaises})
    /\ questions_out = NoResult
    /\ fallback_out = <<>>
    /\ ipc = IF part = "insights" THEN "connect" ELSE "off"
    /\ obtained = FALSE
    /\ conn_state = "none"
    /\ closes = 0
    /\ dept_rows = 0
    /\ inactive_rows = 0
    /\ stats_rows = 0
    /\ recommendations = "none"
    /\ insights_response = "none"

QuizNext == CalculateScore \/ AnalyzeMisconceptions

QuizSpec == Start("quiz") /\ [][QuizNext]_vars

MatchNext == ScoreBothWays \/ AnalyzeBothWays

MatchSpec == Start("match") /\ [][MatchNext]_vars

DiffNext == AdaptDifficulty

DiffSpec == Start("difficulty") /\ [][DiffNext]_vars

ClusterNext == ClusterDepartments

ClusterSpec == Start("cluster") /\ [][ClusterNext]_vars

TipNext ==
    GenerateRuleBasedTips \/ GenerateTipWithClaude \/ GenerateTipsForUser

TipSpec == Start("tips") /\ [][TipNext]_vars

LLMNext == ReturnEarly \/ CallLLM \/ ParseReply \/ ReturnFallback

LLMSpec == Start("llm") /\ [][LLMNext]_vars

TagNext == ExtractTags

TagSpec == Start("tags") /\ [][TagNext]_vars

CsvNext == ValidateStudentData \/ ProcessCsvContent \/ ProcessCsvFile

CsvSpec == Start("csv") /\ [][CsvNext]_vars

SyncNext == SyncContentAccess

SyncSpec == Start("sync") /\ [][SyncNext]_vars

GenNext == GenerateQuestions \/ GenerateFallbackQuestions

GenSpec == Start("generator") /\ [][GenNext]_vars

InsightsNext ==
    \/ Connect
    \/ GetDepartmentData
    \/ ClusterDepartmentsStep
    \/ GetInactiveUsersData
    \/ GetVerificationStats
    \/ GenerateAIRecommendations
    \/ Finally

InsightsSpec == Start("insights") /\ [][InsightsNext]_vars

(***************************************************************************)
(* Properties                                                              *)
(***************************************************************************)
\* positions (1-based) where an answer stands against a question
Aligned == 1..Min(Len(student_answers), Len(quiz_questions))

Scored == qpc \in {"scored", "analyzed"}

\* C1: calculate_score returns 0.0 when either list is empty; otherwise the
\* number of aligned pairs it judges correct over len(questions): answers
\* past the last question are ignored, unanswered questions count as
\* incorrect, and the result lies in [0, 1].
C1_ScoreIsCreditedOverTotal ==
    Scored =>
        IF student_answers = <<>> \/ quiz_questions = <<>>
        THEN score.num = 0 /\ score.den > 0
        ELSE /\ score.den = Len(quiz_questions)
             /\ score.num =
                    Cardinality({i \in Aligned :
                        ScoreCredits(student_answers[i], quiz_questions[i])})
             /\ 0 <= score.num /\ score.num <= score.den

\* one answer for two questions, the answered one right: the score is 1/2
C1_Witness ==
    /\ qpc = "scored"
    /\ Len(student_answers) = 1 /\ Len(quiz_questions) = 2
    /\ score = Fraction(1, 2)

MCQLike(q) == "type" \notin q.has \/ q.type \in {"mcq", "true_false"}

IntegerMatch(a, q) ==
    a.kind = "int" /\ "correctIndex" \in q.has /\ a.int = q.correctIndex

\* C2: an aligned pair whose question is mcq, true_false or untyped adds to
\* the score iff the answer is an integer equal to correctIndex; the pairs
\* of the other types add what the loop body adds for them.
C2_IndexQuestionsCreditedIffEqual ==
    (Scored /\ student_answers # <<>> /\ quiz_questions # <<>>) =>
        score.num =
            Cardinality({i \in Aligned :
                /\ MCQLike(quiz_questions[i])
                /\ IntegerMatch(student_answers[i], quiz_questions[i])})
            + Cardinality({i \in Aligned :
                /\ ~MCQLike(quiz_questions[i])
                /\ ScoreCredits(student_answers[i], quiz_questions[i])})

\* an untyped question answered with its correctIndex, and a text answer to
\* an index question that is not credited
C2_Witness ==
    /\ qpc = "scored"
    /\ Len(student_answers) = 2 /\ Len(quiz_questions) = 2
    /\ "type" \notin quiz_questions[1].has
    /\ IntegerMatch(student_answers[1], quiz_questions[1])
    /\ MCQLike(quiz_questions[2]) /\ student_answers[2].kind = "str"
    /\ score = Fraction(1, 2)

\* the rule as the specification words it
MatchRule(a, b) ==
    LET x == Lower(Strip(a))
        y == Lower(Strip(b))
    IN x = y \/ Contains(x, y) \/ Contains(y, x)

\* C3: the short-answer verdict is the same with student and correct text
\* exchanged, in calculate_score and in analyze_misconceptions, and both are
\* the trim / lower-case / equal-or-contained rule.
C3_ShortAnswerMatchSymmetric ==
    /\ mpc \in {"scored", "analyzed"} =>
          /\ credit_ab = credit_ba
          /\ credit_ab = MatchRule(text_a, text_b)
    /\ mpc = "analyzed" =>
          /\ missed_ab = missed_ba
          /\ missed_ab = ~MatchRule(text_a, text_b)

\* a shorter text contained in a longer one only after trimming and folding
C3_Witness ==
    /\ mpc = "analyzed"
    /\ Len(Strip(text_a)) < Len(Strip(text_b))
    /\ Strip(text_a) # text_a
    /\ ~Contains(text_b, Strip(text_a))
    /\ credit_ab /\ credit_ba /\ ~missed_ab /\ ~missed_ba

\* a question holding every key its type uses, as quiz_evaluator.main builds
WellFormed(q) ==
    /\ "type" \in q.has
    /\ {"question", "explanation", "options"} \subseteq q.has
    /\ \/ q.type \in {"mcq", "true_false"} /\ "correctIndex" \in q.has
       \/ q.type = "short_answer" /\ "correctAnswer" \in q.has

\* an answer of the kind the question asks for, or null for no answer
AnswerFits(a, q) ==
    \/ a.kind = "none"
    \/ a.kind = "int" /\ q.type \in {"mcq", "true_false"}
    \/ a.kind = "str" /\ q.type = "short_answer"

\* C4: analyze_misconceptions returns one misconception for each aligned
\* pair that calculate_score does not credit, once each, in ascending order
\* of questionIndex.  Stated here for quizzes of well-formed questions whose
\* answers are of the question's kind or null, the plainest inputs the
\* claim covers.
C4_MisconceptionForEveryUncreditedPair ==
    (/\ qpc = "analyzed"
     /\ \A i \in 1..Len(quiz_questions) : WellFormed(quiz_questions[i])
     /\ \A i \in Aligned : AnswerFits(student_answers[i], quiz_questions[i])) =>
        LET missed == {i \in Aligned :
                          ~ScoreCredits(student_answers[i], quiz_questions[i])}
            found  == misconceptions.list
        IN /\ ~misconceptions.raised
           /\ Len(found) = Cardinality(missed)
           /\ \A k \in 1..Len(found) : found[k].questionIndex + 1 \in missed
           /\ \A k, l \in 1..Len(found) :
                  k < l => found[k].questionIndex < found[l].questionIndex

\* C5: a question dict lacking any of its keys never makes scoring or the
\* misconception analysis raise.
C5_MissingKeysNeverRaise ==
    qpc = "analyzed" => ~misconceptions.raised

IsLevel(x) == \E k \in 1..Len(difficulties) : difficulties[k] = x
LevelOf(x) == CHOOSE k \in 1..Len(difficulties) : difficulties[k] = x

\* one step up from 85 hundredths, one step down up to 40, clamped to 1..3
ExpectedLevel(s, k) ==
    IF s >= 85 THEN (IF k = 3 THEN 3 ELSE k + 1)
    ELSE IF s <= 40 THEN (IF k = 1 THEN 1 ELSE k - 1)
    ELSE k

\* C6: for current on the scale Easy < Medium < Hard, adapt_difficulty goes
\* one step up (clamped at Hard) when score >= 0.85, one step down (clamped
\* at Easy) when score <= 0.40, and stays otherwise; never more than a step.
C6_OneStepByThreshold ==
    (dpc = "done" /\ IsLevel(current_difficulty)) =>
        LET k == LevelOf(current_difficulty) IN
        /\ IsLevel(next_difficulty)
        /\ LevelOf(next_difficulty) = ExpectedLevel(prev_score, k)
        /\ LevelOf(next_difficulty) - k \in {-1, 0, 1}

\* clamped at Hard on the threshold itself
C6_Witness ==
    /\ dpc = "done"
    /\ current_difficulty = difficulties[3]
    /\ prev_score = 85
    /\ next_difficulty = difficulties[3]

\* C7: adapt_difficulty returns a level for every score and every text; a
\* text equal to a level ignoring case counts as that level, any other text
\* as Medium, before the threshold rule.
C7_TotalWithCaseFoldAndDefault ==
    dpc = "done" =>
        LET folds == {k \in 1..Len(difficulties) :
                         Lower(difficulties[k]) = Lower(current_difficulty)}
            k == IF folds = {} THEN 2 ELSE CHOOSE j \in folds : TRUE
        IN /\ IsLevel(next_difficulty)
           /\ LevelOf(next_difficulty) = ExpectedLevel(prev_score, k)

\* "hARD"-like spelling stepping down to Medium
C7_Witness ==
    /\ dpc = "done"
    /\ ~IsLevel(current_difficulty)
    /\ Lower(current_difficulty) = Lower(difficulties[3])
    /\ prev_score <= 40
    /\ next_difficulty = difficulties[2]

\* an unknown label is Medium, stepping up to Hard
C7_WitnessDefault ==
    /\ dpc = "done"
    /\ \A k \in 1..Len(difficulties) :
           Lower(difficulties[k]) # Lower(current_difficulty)
    /\ prev_score >= 85
    /\ next_difficulty = difficulties[3]

\* C8: with fewer than 2 departments cluster_departments returns, without
\* raising, one assignment per department, all in cluster 0 named
\* "All Departments", in input order.
C8_FewDepartmentsOneGroup ==
    (cpc = "done" /\ Len(dept_data) < 2) =>
        /\ ~cluster_results.raised
        /\ Len(cluster_results.list) = Len(dept_data)
        /\ \A p \in 1..Len(cluster_results.list) :
               /\ cluster_results.list[p].department_id = dept_data[p].id
               /\ cluster_results.list[p].cluster = 0
               /\ cluster_results.list[p].group_name = "All Departments"

SizeNames == <<"Large Departments", "Medium Departments", "Small Departments">>
NameRank(n) == CHOOSE r \in 1..3 : SizeNames[r] = n

\* mean student_count of the departments reported in cluster c, as sum/count
ReportedMean(c) ==
    LET members == {p \in 1..Len(cluster_results.list) :
                       cluster_results.list[p].cluster = c}
    IN Fraction(SumStudents(dept_data, members), Cardinality(members))

C10_OneAssignmentPerDepartmentInOrder ==
    (cpc = "done" /\ ~cluster_results.raised) =>
        /\ Len(cluster_results.list) = Len(dept_data)
        /\ \A p \in 1..Len(dept_data) :
               LET r == cluster_results.list[p]
                   d == dept_data[p]
               IN /\ r.department_id = d.id
                  /\ r.department_name = d.name
                  /\ r.metrics.student_count = d.student_count
                  /\ r.metrics.faculty_count = d.faculty_count
                  /\ r.metrics.inactive_users = d.inactive_users
                  /\ r.metrics.pending_verifications = d.pending_verifications

\* members of one cluster are not adjacent in the output
C10_Witness ==
    /\ cpc = "done"
    /\ Len(dept_data) = 3
    /\ cluster_results.list[1].cluster = 1
    /\ cluster_results.list[2].cluster = 0
    /\ cluster_results.list[3].cluster = 1
    /\ dept_data[1].faculty_count # dept_data[2].faculty_count

(***************************************************************************)
(* Properties of the tip generator                                         *)
(***************************************************************************)
RulesApplied == "rules" \in tpc

\* positions of the generic "keep using the platform" tip in a list
GenericAt(tips) == {k \in 1..Len(tips) : tips[k] = GenericTip}

\* C11: _generate_rule_based_tips returns between 1 and 3 tips for every
\* analysis dict and role; when the role rules produced fewer than 3 tips
\* the result is those tips followed by exactly one generic priority-1 tip,
\* and when they produced 3 or more the result is their first 3 with no
\* generic tip.
C11_AtMostThreeWithGenericBackstop ==
    RulesApplied =>
        LET produced == RoleRules(tip_data, user_type)
        IN  /\ Len(rule_tips) \in 1..3
            /\ Len(produced) < 3 =>
                   /\ rule_tips = produced \o <<GenericTip>>
                   /\ GenericAt(rule_tips) = {Len(rule_tips)}
                   /\ rule_tips[Len(rule_tips)].priority = 1
            /\ Len(produced) >= 3 =>
                   /\ rule_tips = SubSeq(produced, 1, 3)
                   /\ GenericAt(rule_tips) = {}

\* a faculty dict with two findings: the generic tip comes third
C11_Witness ==
    /\ RulesApplied
    /\ user_type = "faculty"
    /\ Len(RoleRules(tip_data, user_type)) = 2
    /\ Len(rule_tips) = 3
    /\ rule_tips[3] = GenericTip

\* the admin request with its department_activity (<<>> when the key is
\* missing)
Activity ==
    IF tip_data.has_department_activity THEN tip_data.department_activity
    ELSE <<>>

HasTip(tips, content) == \E k \in 1..Len(tips) : tips[k].content = content

TipAt(tips, content) == CHOOSE k \in 1..Len(tips) : tips[k].content = content

MostActiveText  == MostActiveTip("").content
LeastActiveText == LeastActiveTip("").content

\* what the admin tips must be when the two department tips are due or not
AdminTipsAre(mostDue, leastDue) ==
    /\ rule_tips[1] = SystemHealthTip
    /\ HasTip(rule_tips, MostActiveText) <=> mostDue
    /\ HasTip(rule_tips, LeastActiveText) <=> leastDue
    /\ mostDue =>
           /\ rule_tips[2] = MostActiveTip(MaxItem(Activity)[1])
           /\ rule_tips[2].ui_style = "success"
           /\ \A k \in 1..Len(Activity) :
                  Activity[k][2] <= MaxItem(Activity)[2]
    /\ leastDue =>
           /\ TipAt(rule_tips, LeastActiveText) =
                  (IF mostDue THEN 3 ELSE 2)
           /\ rule_tips[TipAt(rule_tips, LeastActiveText)] =
                  LeastActiveTip(MinItem(Activity)[1])
           /\ \A k \in 1..Len(Activity) :
                  Activity[k][2] >= MinItem(Activity)[2]

AdminRulesApplied == RulesApplied /\ user_type = "admin"

\* C12 as stated: for role admin the system-health tip (priority 3) comes
\* first; with non-empty department activity the "most active" success tip
\* for the department with the maximum count follows, and the "least
\* active" warning tip is emitted iff the minimum count is greater than 0.
C12_AdminTipsByCount ==
    AdminRulesApplied =>
        AdminTipsAre(Activity # <<>>,
                     Activity # <<>> /\ MinItem(Activity)[2] > 0)

\* C12 amended: each department tip is emitted only for a department with a
\* non-empty name: the "most active" tip iff the department activity is
\* non-empty and its maximum-count department is named, the "least active"
\* tip iff the minimum-count department is named and its count is greater
\* than 0; the system-health tip (priority 3) always comes first.
C12_AdminTipsByCountForNamedDepartments ==
    AdminRulesApplied =>
        /\ SystemHealthTip.priority = 3
        /\ AdminTipsAre(Activity # <<>> /\ Truthy(MaxItem(Activity)[1]),
                        /\ Activity # <<>>
                        /\ Truthy(MinItem(Activity)[1])
                        /\ MinItem(Activity)[2] > 0)

\* two named departments, the least active one with no interaction at all:
\* the most-active tip is there, the warning is not
C12_Witness ==
    /\ AdminRulesApplied
    /\ Len(Activity) = 2
    /\ Truthy(MinItem(Activity)[1])
    /\ MinItem(Activity)[2] = 0
    /\ HasTip(rule_tips, MostActiveText)
    /\ ~HasTip(rule_tips, LeastActiveText)

\* positions of the tips of a given priority
WithPriority(tips, p) == {k \in 1..Len(tips) : tips[k].priority = p}

\* every position of A is before every position of B
Before(A, B) == \A a \in A, b \in B : a < b

\* C13: for role student the tips are, in this order, an improvement tip of
\* priority 4 iff the weakest subject has a name, a celebration tip of
\* priority 3 iff the strongest subject has a name, then one engagement tip
\* of priority 2, which is in the returned list for every student dict.
C13_StudentTipsInOrder ==
    (RulesApplied /\ user_type = "student") =>
        LET weak   == NameOf(tip_data.weakest_subject)
            strong == NameOf(tip_data.strongest_subject)
            p4     == WithPriority(rule_tips, 4)
            p3     == WithPriority(rule_tips, 3)
            p2     == WithPriority(rule_tips, 2)
        IN  /\ Cardinality(p4) = (IF Truthy(weak) THEN 1 ELSE 0)
            /\ Cardinality(p3) = (IF Truthy(strong) THEN 1 ELSE 0)
            /\ Cardinality(p2) = 1
            /\ \A k \in p4 : rule_tips[k] = WeakestTip(weak)
            /\ \A k \in p3 : rule_tips[k] = StrongestTip(strong)
            /\ \A k \in p2 : rule_tips[k] = EngagementTip
            /\ Before(p4, p3) /\ Before(p3, p2) /\ Before(p4, p2)
            /\ Before(p2, GenericAt(rule_tips))

\* both subjects named: the engagement tip is the third and last tip
C13_Witness ==
    /\ RulesApplied
    /\ user_type = "student"
    /\ Truthy(NameOf(tip_data.weakest_subject))
    /\ Truthy(NameOf(tip_data.strongest_subject))
    /\ Len(rule_tips) = 3
    /\ rule_tips[3] = EngagementTip

\* priorities of the rule-based tips of every role
RulePriorities == {rule_tips[k].priority : k \in 1..Len(rule_tips)}

\* C14: for role faculty the tips are, in this order, a warning tip of
\* priority 4 iff the most challenging subject has a name, a tip of priority
\* 5 iff there are struggling students, a success tip of priority 3 iff
\* there are excelling students; no rule-based tip of another kind has
\* priority 5, and every rule-based tip has a priority in 1..5.
C14_FacultyTipsInOrder ==
    RulesApplied =>
        /\ RulePriorities \subseteq 1..5
        /\ \A k \in WithPriority(rule_tips, 5) :
               user_type = "faculty" /\ rule_tips[k] = StrugglingTip
        /\ user_type = "faculty" =>
               LET hard == NameOf(tip_data.most_challenging_subject)
                   p4   == WithPriority(rule_tips, 4)
                   p5   == WithPriority(rule_tips, 5)
                   p3   == WithPriority(rule_tips, 3)
               IN  /\ Cardinality(p4) = (IF Truthy(hard) THEN 1 ELSE 0)
                   /\ Cardinality(p5) =
                          (IF Cardinality(tip_data.struggling_students) > 0
                           THEN 1 ELSE 0)
                   /\ Cardinality(p3) =
                          (IF Cardinality(tip_data.excelling_students) > 0
                           THEN 1 ELSE 0)
                   /\ \A k \in p4 : rule_tips[k] = ChallengingTip(hard)
                   /\ \A k \in p4 : rule_tips[k].ui_style = "warning"
                   /\ \A k \in p3 : rule_tips[k] = ExcellingTip
                   /\ \A k \in p3 : rule_tips[k].ui_style = "success"
                   /\ Before(p4, p5) /\ Before(p5, p3) /\ Before(p4, p3)

\* a class with a hard subject, struggling and excelling students
C14_Witness ==
    /\ RulesApplied
    /\ user_type = "faculty"
    /\ Len(rule_tips) = 3
    /\ <<rule_tips[1].priority, rule_tips[2].priority,
         rule_tips[3].priority>> = <<4, 5, 3>>

\* C15: for every role and every outcome of the LLM call (client
\* unavailable, call failure, unparseable text, a parsed JSON array of any
\* length) generate_tips_for_user returns at most 3 tips.
C15_AtMostThreeTipsPerRequest ==
    "user" \in tpc => Len(user_tips) <= 3

\* the response holds no text between a "[" and a later "]" that json.loads
\* accepts
Unparseable(text) ==
    \/ Find(text, "[") = 0
    \/ RFind(text, "]") < Find(text, "[")
    \/ JsonLoads(SubSeq(text, Find(text, "["), RFind(text, "]"))).raised

LLMPathFailed ==
    \/ ~client_ready
    \/ llm_reply.raises
    \/ Unparseable(llm_reply.text)

\* C16 as stated: whenever the LLM client is unavailable, the call raises or the
\* response cannot be parsed into tips, _generate_tip_with_claude(data, role)
\* returns exactly _generate_rule_based_tips(data, role).
C16_RuleBasedOnAnyLLMFailure ==
    ("claude" \in tpc /\ LLMPathFailed) =>
        claude_tips = _generate_rule_based_tips(tip_data, user_type)

\* the response holds no "[" with a "]" at or after it
NoArraySpan(text) ==
    Find(text, "[") = 0 \/ RFind(text, "]") < Find(text, "[")

\* C16 amended: _generate_tip_with_claude(data, role) returns exactly
\* _generate_rule_based_tips(data, role) whenever the LLM client is
\* unavailable or the call raises; when the response text cannot be parsed
\* it returns one placeholder tip of priority 3 instead: the "general" tip
\* carrying the text when the text holds no JSON array, the "engagement"
\* tip when json.loads rejects the array.
C16_RuleBasedOnCallFailurePlaceholderOnBadText ==
    "claude" \in tpc =>
        /\ (~client_ready \/ llm_reply.raises) =>
               claude_tips = _generate_rule_based_tips(tip_data, user_type)
        /\ (client_ready /\ ~llm_reply.raises) =>
               /\ NoArraySpan(llm_reply.text) => claude_tips = <<BasicTip>>
               /\ (~NoArraySpan(llm_reply.text)
                      /\ Unparseable(llm_reply.text)) =>
                      claude_tips = <<FallbackTip>>
               /\ Unparseable(llm_reply.text) =>
                      /\ Len(claude_tips) = 1
                      /\ claude_tips[1].priority = 3

\* the client is there, the call raised: the rule-based tips come back
C16_Witness ==
    /\ "claude" \in tpc
    /\ client_ready
    /\ llm_reply.raises
    /\ claude_tips = _generate_rule_based_tips(tip_data, user_type)
    /\ Len(claude_tips) = 3

(***************************************************************************)
(* Properties of the LLM requests                                          *)
(***************************************************************************)
\* the call of the request raised
CallFailed == llm_calls > 0 /\ call_result = "raises"

\* C17: within one request to tip generation, question generation, feedback
\* generation or next-question suggestion the LLM is invoked at most once,
\* and after a failed call the hard-coded fallback is returned with no
\* further invocation.
C17_LLMNeverRetried ==
    /\ [](llm_calls <= 1)
    /\ []((CallFailed /\ lpc = "returned") => llm_answer = "fallback")
    /\ [][CallFailed => llm_calls' = llm_calls]_vars

\* a request whose single call raised and that returned the fallback
C17_Witness ==
    /\ lpc = "returned"
    /\ call_result = "raises"
    /\ llm_calls = 1
    /\ llm_answer = "fallback"

(***************************************************************************)
(* Properties of extract_tags                                              *)
(***************************************************************************)
Candidates == AllCandidates(doc_tokens, doc_ents)

\* occurrences of a tag among the candidates, and its first position
Frequency(tag) ==
    Cardinality({k \in 1..Len(Candidates) : Lower(Candidates[k]) = tag})

FirstSeen(tag) ==
    CHOOSE k \in 1..Len(Candidates) :
        /\ Lower(Candidates[k]) = tag
        /\ \A j \in 1..(k - 1) : Lower(Candidates[j]) # tag

\* C18: for every text and every max_tags, 0 included, extract_tags returns
\* a list of at most max_tags tags, pairwise distinct, each longer than 3
\* characters, ordered by candidate frequency descending with ties in
\* first-seen order.
C18_TagsBoundedDistinctRanked ==
    gpc = "done" =>
        /\ Len(unique_tags) <= max_tags
        /\ \A i, j \in 1..Len(unique_tags) :
               i # j => unique_tags[i] # unique_tags[j]
        /\ \A i \in 1..Len(unique_tags) : Len(unique_tags[i]) > 3
        /\ \A i, j \in 1..Len(unique_tags) :
               i < j =>
                   \/ Frequency(unique_tags[i]) > Frequency(unique_tags[j])
                   \/ /\ Frequency(unique_tags[i]) = Frequency(unique_tags[j])
                      /\ FirstSeen(unique_tags[i]) < FirstSeen(unique_tags[j])

(***************************************************************************)
(* Properties of validate_student_data                                     *)
(***************************************************************************)
Validated == vpc = "done"

RequiredMissing == {"email", "student_id"} \ df_columns # {}

\* the row passes: both required cells are there and the trimmed email holds
\* an "@" and a "."
RowPasses(row) ==
    /\ ~IsNa(row.email)
    /\ ~IsNa(row.student_id)
    /\ Contains(Strip(row.email.text), <<"@">>)
    /\ Contains(Strip(row.email.text), <<".">>)

Passing == {k \in 1..Len(df_rows) : RowPasses(df_rows[k])}

\* the k-th passing row, counted from 1
RECURSIVE NthPassing(_, _)
NthPassing(n, from) ==
    IF from \in Passing
    THEN IF n = 1 THEN from ELSE NthPassing(n - 1, from + 1)
    ELSE NthPassing(n, from + 1)

Trimmed(t) == Strip(t) = t

\* row by row: the passing rows give the valid records, in order and
\* trimmed, every other row gives one error
RowByRow ==
    /\ Len(validation.valid_records) = Cardinality(Passing)
    /\ Len(validation.errors) = Len(df_rows) - Cardinality(Passing)
    /\ \A n \in 1..Len(validation.valid_records) :
           LET row == df_rows[NthPassing(n, 1)]
               rec == validation.valid_records[n]
           IN  /\ rec.email = Strip(row.email.text)
               /\ rec.student_id = Strip(row.student_id.text)
               /\ Trimmed(rec.email) /\ Trimmed(rec.student_id)
               /\ rec.department_name.none <=> IsNa(row.department_name)
               /\ ~rec.department_name.none =>
                      /\ rec.department_name.text =
                             Strip(row.department_name.text)
                      /\ Trimmed(rec.department_name.text)

WholeBatchRejected ==
    /\ validation.valid_records = <<>>
    /\ Len(validation.errors) = 1

\* C19 as stated: with the email or student_id column absent the whole
\* batch is rejected with exactly one error and no valid record; otherwise
\* each row with a missing email or student_id, or an email without both
\* "@" and ".", is skipped with one error and every other row yields one
\* valid record with trimmed fields.
C19_BatchRejectedOrRowByRow ==
    Validated =>
        IF RequiredMissing THEN WholeBatchRejected ELSE RowByRow

\* C19 amended: a table without rows yields no record and no error whatever
\* its columns; a table with rows is rejected whole with exactly one error
\* when the email or student_id column is absent, and is otherwise decided
\* row by row as stated.
C19_NonEmptyBatchRejectedOrRowByRow ==
    Validated =>
        IF df_rows = <<>> THEN validation = EmptyValidation
        ELSE IF RequiredMissing THEN WholeBatchRejected
        ELSE RowByRow

\* two rows under both columns, one passing and one not: one record, one
\* error
C19_Witness ==
    /\ Validated
    /\ ~RequiredMissing
    /\ Len(df_rows) = 2
    /\ Cardinality(Passing) = 1
    /\ Len(validation.valid_records) = 1
    /\ Len(validation.errors) = 1

\* C20: every record in valid_records has a non-empty email holding "@" and
\* "." and a non-empty student_id, after the trimming of the validator,
\* rows with a whitespace-only student_id included.
C20_ValidRecordsHaveEmailAndId ==
    Validated =>
        \A n \in 1..Len(validation.valid_records) :
            LET rec == validation.valid_records[n]
            IN  /\ rec.email # <<>>
                /\ Contains(rec.email, <<"@">>)
                /\ Contains(rec.email, <<".">>)
                /\ rec.student_id # <<>>

(***************************************************************************)
(* Properties of sync_content_access                                       *)
(***************************************************************************)
Synced == spc = "done"

\* C21: for every input list the result satisfies
\* summary.synced + summary.error = summary.total, total being the number of
\* input records.
C21_SyncedPlusErrorIsTotal ==
    Synced =>
        /\ sync_result.summary.total = Len(student_data)
        /\ sync_result.summary.synced + sync_result.summary.error =
               sync_result.summary.total

\* two records, one synced and one in error
C21_Witness ==
    /\ Synced
    /\ Len(student_data) = 2
    /\ sync_result.summary.synced = 1
    /\ sync_result.summary.error = 1

\* the one outcome a record must have
Outcome(student) ==
    IF Falsy(student.email) \/ Falsy(student.student_id) THEN "missing"
    ELSE IF Falsy(student.department_name) THEN "department"
    ELSE "synced"

Mentions(reason, word) ==
    \/ word = "department"
           /\ reason = "No department specified for content access"
    \/ word = "required"
           /\ reason = "Missing required fields (email or student_id)"

\* records of the input with a given outcome, by position
With(outcome) ==
    {k \in 1..Len(student_data) : Outcome(student_data[k]) = outcome}

\* the n-th position of the input whose outcome is in the set
RECURSIVE NthOf(_, _, _)
NthOf(outcomes, n, from) ==
    IF Outcome(student_data[from]) \in outcomes
    THEN IF n = 1 THEN from ELSE NthOf(outcomes, n - 1, from + 1)
    ELSE NthOf(outcomes, n, from + 1)

DepartmentCount(name) ==
    LET at == {k \in 1..Len(sync_result.summary.by_department) :
                  sync_result.summary.by_department[k][1] = name}
    IN  IF at = {} THEN 0
        ELSE sync_result.summary.by_department[CHOOSE k \in at : TRUE][2]

\* C22: every record has exactly one outcome: one missing-required-fields
\* error when email or student_id is empty; one error mentioning the
\* department, and no synced entry, when both are there and department_name
\* is empty; otherwise one synced entry with subjects_faculty
\* "<department_name> - All Faculty" and one more in that department's count.
C22_OneOutcomePerRecord ==
    (Synced /\ student_data # <<>>) =>
        /\ Len(sync_result.errors) =
               Cardinality(With("missing")) + Cardinality(With("department"))
        /\ Len(sync_result.synced_students) = Cardinality(With("synced"))
        /\ Len(sync_result.errors) + Len(sync_result.synced_students) =
               Len(student_data)
        /\ \A n \in 1..Len(sync_result.errors) :
               LET k == NthOf({"missing", "department"}, n, 1)
               IN  Mentions(sync_result.errors[n].reason,
                            IF Outcome(student_data[k]) = "missing"
                            THEN "required" ELSE "department")
        /\ \A n \in 1..Len(sync_result.synced_students) :
               LET student == student_data[NthOf({"synced"}, n, 1)]
                   entry   == sync_result.synced_students[n]
               IN  /\ entry.email = student.email.text
                   /\ entry.student_id = student.student_id.text
                   /\ entry.department_name = student.department_name.text
                   /\ entry.department_name # <<>>
                   /\ entry.subjects_faculty =
                          entry.department_name \o
                              <<" ", "-", " ", "A", "l", "l", " ",
                                "F", "a", "c", "u", "l", "t", "y">>
        /\ \A d \in SyncDepts :
               DepartmentCount(d.text) =
                   Cardinality({k \in With("synced") :
                                   student_data[k].department_name = d})

\* a record without a department next to a complete one: one error
\* mentioning the department, one synced entry
C22_Witness ==
    /\ Synced
    /\ Len(student_data) = 2
    /\ Outcome(student_data[1]) = "department"
    /\ Outcome(student_data[2]) = "synced"
    /\ Len(sync_result.errors) = 1
    /\ Len(sync_result.synced_students) = 1
    /\ DepartmentCount(student_data[2].department_name.text) = 1

\* sum of the counts of by_department
RECURSIVE SumCounts(_)
SumCounts(counts) ==
    IF counts = <<>> THEN 0 ELSE Head(counts)[2] + SumCounts(Tail(counts))

\* C28: in every result the counters agree with the lists:
\* len(synced_students) = summary.synced, len(errors) = summary.error, the
\* by_department counts add up to summary.synced, and success is false
\* exactly when the errors list is non-empty and nothing was synced.
C28_CountersAgreeWithLists ==
    Synced =>
        /\ Len(sync_result.synced_students) = sync_result.summary.synced
        /\ Len(sync_result.errors) = sync_result.summary.error
        /\ SumCounts(sync_result.summary.by_department) =
               sync_result.summary.synced
        /\ ~sync_result.success <=>
               (sync_result.errors # <<>> /\ sync_result.synced_students = <<>>)

(***************************************************************************)
(* Properties of quiz_generator.generate_questions                         *)
(***************************************************************************)
Generated == "generate" \in npc

FellBack == "fallback" \in npc

\* C23: for every difficulty string outside Easy, Medium, Hard,
\* generate_questions completes without raising and returns a normal result
\* (adapt_difficulty does so: C7).
C23_UnknownDifficultyDefaulted ==
    (Generated /\ ~KnownDifficulty(gen_difficulty)) => ~questions_out.raised

\* C24: generate_questions and generate_fallback_questions return exactly
\* num_questions questions for every num_questions >= 1, on the LLM path and
\* on the fallback path.
C24_ExactlyNumQuestions ==
    /\ (Generated /\ ~questions_out.raised)
           => Len(questions_out.list) = num_questions
    /\ FellBack => Len(fallback_out) = num_questions

QuestionInvariant(q) ==
    /\ q.type \in {"mcq", "true_false", "short_answer"}
    /\ q.type = "mcq"
           => /\ Len(q.options) = 4
              /\ 0 <= q.correctIndex /\ q.correctIndex < 4
    /\ q.type = "true_false"
           => /\ q.options = TrueFalse
              /\ q.correctIndex \in {0, 1}
    /\ q.type = "short_answer"
           => /\ Len(q.options) = 0
              /\ "correctAnswer" \in q.has /\ q.correctAnswer # ""

\* C25: every question returned by generate_questions, for every parsed LLM
\* response and on the fallback path, satisfies the Question invariant.
C25_QuestionsWellFormed ==
    Generated
        => \A k \in 1..Len(questions_out.list) :
               QuestionInvariant(questions_out.list[k])
(***************************************************************************)
(* Properties of the texts shown in a misconception                        *)
(***************************************************************************)
Analyzed == qpc = "analyzed"

\* an integer answer to an index question that differs from its correctIndex
WrongIndex(answer, question) ==
    /\ QuestionType(question) \in {"mcq", "true_false"}
    /\ IsInt(answer)
    /\ "correctIndex" \in question.has
    /\ answer.int # question.correctIndex

\* a text answer to a short-answer question that does not match
WrongText(answer, question) ==
    /\ QuestionType(question) = "short_answer"
    /\ IsStr(answer)
    /\ "correctAnswer" \in question.has
    /\ ~score_is_match(Lower(Strip(answer.str)),
                       Lower(Strip(question.correctAnswer)))

Displayable(question) ==
    {"options", "question", "explanation"} \subseteq question.has

OptionOr(opts, k, placeholder) ==
    IF k \in 0..(Len(opts) - 1) THEN opts[k + 1] ELSE placeholder

\* the misconception recorded for python index i has these two answers
Records(i, student, correct) ==
    \E k \in 1..Len(misconceptions.list) :
        /\ misconceptions.list[k].questionIndex = i
        /\ misconceptions.list[k].studentAnswer = student
        /\ misconceptions.list[k].correctAnswer = correct

\* C26: a wrong index answer is shown as options[answer], or "No answer" when
\* the index is negative or too large, next to options[correctIndex], or
\* "Unknown" when that is out of range; a wrong short answer is recorded with
\* the raw student text and the raw correctAnswer; the analysis of questions
\* that hold their options and display keys never raises, whatever the
\* indexes are.
C26_AnswersRenderedWithFallbacks ==
    Analyzed =>
        /\ (\A i \in Aligned : Displayable(quiz_questions[i]))
               => ~misconceptions.raised
        /\ ~misconceptions.raised =>
               \A i \in Aligned :
                   LET answer   == student_answers[i]
                       question == quiz_questions[i]
                   IN  /\ WrongIndex(answer, question) =>
                              Records(i - 1,
                                  Shown(OptionOr(question.options, answer.int,
                                                 "No answer")),
                                  Shown(OptionOr(question.options,
                                                 question.correctIndex,
                                                 "Unknown")))
                       /\ WrongText(answer, question) =>
                              Records(i - 1, RawText(answer.str),
                                      RawText(question.correctAnswer))

\* a negative answer shown as "No answer" next to an "Unknown" correct answer
C26_Witness ==
    /\ Analyzed
    /\ ~misconceptions.raised
    /\ \E i \in Aligned :
           /\ WrongIndex(student_answers[i], quiz_questions[i])
           /\ student_answers[i].int < 0
           /\ quiz_questions[i].correctIndex >= Len(quiz_questions[i].options)
           /\ quiz_questions[i].options # <<>>
           /\ Records(i - 1, Shown("No answer"), Shown("Unknown"))
(***************************************************************************)
(* Properties of blank short answers                                       *)
(***************************************************************************)
Blank(text) == Strip(text) = <<>>

\* C27: an empty or whitespace-only short answer is credited by
\* calculate_score against a short-answer question whatever its correctAnswer
\* is, and analyze_misconceptions records no misconception for it.
C27_BlankShortAnswerCredited ==
    mpc = "analyzed" =>
        /\ Blank(text_a) => credit_ab /\ ~missed_ab
        /\ Blank(text_b) => credit_ba /\ ~missed_ba

\* a whitespace-only answer credited against a correct answer with letters
C27_Witness ==
    /\ mpc = "analyzed"
    /\ text_a # <<>> /\ Blank(text_a)
    /\ ~Blank(text_b)
    /\ credit_ab /\ ~missed_ab
(***************************************************************************)
(* Properties of process_csv_content and process_csv_file                  *)
(***************************************************************************)
CsvProcessed == vpc \in {"content", "file"} /\ csv_payload.success

\* C29: for every CSV that parses, the payload partitions the rows:
\* valid_count + error_count = total_records, valid_count is the number of
\* valid records and error_count the number of errors, also when a required
\* column is absent.
C29_RowsPartitioned ==
    CsvProcessed =>
        /\ csv_payload.valid_count + csv_payload.error_count
               = csv_payload.total_records
        /\ csv_payload.valid_count = Len(csv_payload.valid_records)
        /\ csv_payload.error_count = Len(csv_payload.errors)
(***************************************************************************)
(* Properties of the connection of an /insights request                    *)
(***************************************************************************)
Returned == ipc = "returned"

\* C30: a request that obtained a database connection has closed it exactly
\* once when its response is returned, whether it returns early for want of
\* departments, succeeds, or catches an exception of a query, the clustering
\* or the recommendations; the connection is never closed twice or before the
\* response is decided; a request whose connection attempt failed returns
\* the error payload and closes nothing.
C30_ConnectionClosedOnceOnEveryPath ==
    /\ [](closes <= 1)
    /\ [](closes = 1 => obtained /\ conn_state = "closed" /\ Returned)
    /\ [](Returned /\ obtained => closes = 1 /\ insights_response # "none")
    /\ [](Returned /\ ~obtained => closes = 0 /\ insights_response = "error")
    /\ [][closes' # closes => insights_response # "none" /\ Returned']_vars

\* a request that caught an exception of a later query and closed its
\* connection
C30_Witness ==
    /\ Returned
    /\ obtained
    /\ dept_rows >= 2
    /\ insights_response = "error"
    /\ closes = 1
    /\ conn_state = "closed"
====
